---- MODULE Spec2Model ----
(***************************************************************************)
(* Job lifecycle of the OCR page: AppLayout's job list (add / update /     *)
(* replace-id / remove / resynchronise), OcrPage's submission handler      *)
(* (upload URL -> signed PUT -> POST /ocr), the timer driven status poll,  *)
(* the lazy result fetch of the currentJob effect and the unmount cleanup. *)
(* Every await of the source is a point where other handlers may run, so   *)
(* each request is a message in flight: sent, answered by the backend,     *)
(* then handled by the continuation of the async function.                 *)
(***************************************************************************)
EXTENDS Integers, Sequences, FiniteSets, TLC

(* ------------------------------ bounds --------------------------------- *)
MaxSubmissions == 1     \* activations of handleSubmit in one session
MaxFetchJobs   == 1     \* calls of fetchJobs (mount, then token renewals)
MaxInFlight    == 2     \* identical poll requests in flight at once
MaxTimers      == 2     \* setTimeout handles alive at once

(* --------------------------- program constants ------------------------- *)
PollInterval  == 3000   \* setTimeout(..., 3000): the job is still processing
ErrorInterval == 5000   \* setTimeout(..., 5000): the poll itself failed
MAX_FILE_SIZE == 100    \* 100 * 1024 * 1024 bytes, counted here in MB

(* ------------------------------- ids ----------------------------------- *)
NoJob       == 0                                \* null
NoResult    == 0                                \* result: undefined
Submissions == 1..MaxSubmissions
LocalId(n)  == 0 - n                            \* `job-${Date.now()}` of activation n
ServerIds   == 1..MaxSubmissions                \* job_id values the backend assigns
Handles     == 1..MaxTimers
Terminal    == {"completed", "failed"}
PollStates  == {"sent", "error", "processing", "completed", "failed"}
FileSizes   == {MAX_FILE_SIZE, MAX_FILE_SIZE + 1}

VARIABLES
  jobs,             \* AppLayout: jobs (newest first)
  currentJobId,     \* AppLayout: currentJobId
  step,             \* OcrPage: 'upload' | 'options' | 'result'
  imageData,        \* OcrPage: a document is loaded (imageData !== null)
  isProcessing,     \* OcrPage: isProcessing
  processingJobId,  \* OcrPage: processingJobId
  mounted,          \* the React tree is mounted
  pollTimeoutRef,   \* OcrPage: pollTimeoutRef.current (a handle, 0 = null)
  timers,           \* pending setTimeout callbacks, by handle
  pollFetch,        \* GET /ocr/{id} of pollJobStatus in flight, by id and state
  submit,           \* activations of handleSubmit: position and awaited answers
  jobsFetch,        \* GET /jobs of the k-th fetchJobs call: state and listing
  resultFetch,      \* ids with a GET /ocr/{id} of fetchJobResult in flight
  srvStatus,        \* backend: status of every job id ("none" = not created)
  terminalHandled,  \* per id: terminal poll responses handled so far (max 2)
  currentPdfPage,   \* OcrPage: currentPdfPage
  resultData,       \* OcrPage: const resultData = getResultData() of the last render
  rendered,         \* what the last render of the result step put on the screen
  previewUrl,       \* OcrPage: previewUrl ("null" = null)
  loadedImageUrl,   \* OcrPage: loadedImageUrl ("null" = null)
  resultImage,      \* the <img key={previewUrl}> element behind resultImageRef
  showBbox,         \* OcrPage: showBbox
  envelope,         \* the stored result JSON that a job's result stands for
  frames,           \* previewUrl values of the requestAnimationFrame callbacks pending
  called,           \* name of the operation the last step applied ("none" at start)
  totalPdfPages,    \* OcrPage: totalPdfPages
  pdfArrayBufferRef,\* OcrPage: pdfArrayBufferRef.current (the document held, 0 = null)
  pending,          \* awaits of the preview handlers still in flight
  hook              \* useOcrResult: its state, its refs, its timers and requests

\* the job lifecycle
jobVars == <<jobs, currentJobId, step, imageData, isProcessing, processingJobId,
             mounted, pollTimeoutRef, timers, pollFetch, submit, jobsFetch,
             resultFetch, srvStatus, terminalHandled>>

\* the result view
\* the PDF page state and the asynchronous loads of the preview
pageVars == <<totalPdfPages, pdfArrayBufferRef, pending>>

viewVars == <<currentPdfPage, resultData, rendered, previewUrl, loadedImageUrl,
              resultImage, showBbox, envelope, frames, called, pageVars, hook>>

vars == <<jobVars, viewVars>>

(* --------------------------- the job list ------------------------------ *)
OcrJob(id, status, result) == [id |-> id, status |-> status, result |-> result]

Ids(js) == {js[i].id : i \in 1..Len(js)}

InList(id) == id \in Ids(jobs)

\* jobs.find((j) => j.id === id): the first match
FindJob(js, id) == js[CHOOSE i \in 1..Len(js) :
                        js[i].id = id /\ \A k \in 1..(i - 1) : js[k].id # id]

Merge(job, updates) ==
  [f \in DOMAIN job |-> IF f \in DOMAIN updates THEN updates[f] ELSE job[f]]

addJob(js, job) == <<job>> \o js

updateJob(js, id, updates) ==
  [i \in 1..Len(js) |-> IF js[i].id = id THEN Merge(js[i], updates) ELSE js[i]]

replaceJobId(js, oldId, newId) ==
  [i \in 1..Len(js) |-> IF js[i].id = oldId THEN Merge(js[i], [id |-> newId]) ELSE js[i]]

removeJob(js, id) == SelectSeq(js, LAMBDA j : j.id # id)

RECURSIVE ListingFrom(_, _)
\* the listing of the job-listing API, newest id first, without results
ListingFrom(snap, k) ==
  IF k = 0 THEN <<>>
  ELSE (IF snap[k] = "none" THEN <<>> ELSE <<OcrJob(k, snap[k], NoResult)>>)
       \o ListingFrom(snap, k - 1)

fetchedJobs(snap) == ListingFrom(snap, MaxSubmissions)

(* ------------------------ setState after unmount ----------------------- *)
\* a state update of an unmounted tree is dropped
SetState(old, new) == IF mounted THEN new ELSE old

(* ---------------------- the currentJob effect -------------------------- *)
\* dependency list [currentJobId, currentJob?.status, currentJob?.result]
EffectDeps(js, cur) ==
  IF cur \in Ids(js)
  THEN <<cur, FindJob(js, cur).status, FindJob(js, cur).result>>
  ELSE <<cur, "undefined", NoResult>>

EffectRuns(js, cur) ==
  /\ mounted
  /\ EffectDeps(js, cur) # EffectDeps(jobs, currentJobId)
  /\ cur \in Ids(js)

\* the effect calls fetchJobResult(currentJob.id)
EffectFetchesResult(js, cur) ==
  /\ EffectRuns(js, cur)
  /\ FindJob(js, cur).result = NoResult
  /\ FindJob(js, cur).status = "completed"

\* the effect calls setStep('result')
EffectShowsResult(js, cur) ==
  /\ EffectRuns(js, cur)
  /\ FindJob(js, cur).result # NoResult

\* commit of a render: the new list, selection and step, then the effect;
\* rf are the result fetches still in flight
CommitWith(js, cur, st, rf) ==
  /\ jobs' = SetState(jobs, js)
  /\ currentJobId' = SetState(currentJobId, cur)
  /\ step' = SetState(step, IF EffectShowsResult(js, cur) THEN "result" ELSE st)
  /\ resultFetch' = IF EffectFetchesResult(js, cur) THEN rf \cup {cur} ELSE rf

Commit(js, cur, st) == CommitWith(js, cur, st, resultFetch)

(* ------------------------------- Init ---------------------------------- *)
NoListing == [j \in ServerIds |-> "none"]

NoTimer == [job |-> NoJob, delay |-> 0]

IdleSubmit == [pc |-> "idle", upload |-> "none", resp |-> 0]

Null == [shape |-> "null"]                      \* getResultData() === null

Absent == [shape |-> "absent"]                  \* the field is undefined

NoEnvelope == [res |-> Absent, results |-> Absent]

\* nothing of the result step is on screen
NothingRendered ==
  [page |-> "none", overlays |-> <<>>, processed |-> <<>>, blocks |-> <<>>,
   panel |-> "none"]

NoUrl == "null"

NoImage ==
  [url |-> NoUrl, complete |-> FALSE, naturalWidth |-> 0, naturalHeight |-> 0,
   clientWidth |-> 0, clientHeight |-> 0]  \* resultImageRef.current === null

\* nothing submitted, nothing in flight
\* no request in flight, no timer armed
RequestsIdle ==
  /\ mounted = TRUE
  /\ pollTimeoutRef = 0
  /\ timers = [h \in Handles |-> NoTimer]
  /\ pollFetch = [j \in ServerIds |-> [s \in PollStates |-> 0]]
  /\ submit = [n \in Submissions |-> IdleSubmit]
  /\ jobsFetch = [k \in 1..MaxFetchJobs |-> [st |-> "idle", snap |-> NoListing]]
  /\ resultFetch = {}
  /\ srvStatus = [j \in ServerIds |-> "none"]
  /\ terminalHandled = [j \in ServerIds |-> 0]

LifecycleIdle ==
  /\ step = "upload"
  /\ imageData = FALSE
  /\ isProcessing = FALSE
  /\ processingJobId = NoJob
  /\ RequestsIdle

JobInit ==
  /\ jobs = <<>>
  /\ currentJobId = NoJob
  /\ LifecycleIdle

\* a document: the job (or picked file) it belongs to and its pages (0: an image)
Document(id, pages) == [id |-> id, pages |-> pages]

NoBuffer == Document(NoJob, 0)                  \* pdfArrayBufferRef.current === null

\* useOcrResult after its first render; live, inflight, starts and mounted are
\* the timers set, the requests awaited per job, the calls of startPolling so
\* far, and whether the component using the hook is mounted
HookJobs == {1, 2}

HookIdle ==
  [status |-> "idle", result |-> NoResult, error |-> "null", intervalRef |-> 0,
   retriesRef |-> 0, jobIdRef |-> NoJob, live |-> {},
   inflight |-> [j \in HookJobs |-> 0], starts |-> 0, mounted |-> TRUE]

PageInit ==
  /\ totalPdfPages = 1
  /\ pdfArrayBufferRef = NoBuffer
  /\ pending = {}

ViewInit ==
  /\ PageInit
  /\ hook = HookIdle
  /\ currentPdfPage = 1
  /\ resultData = Null
  /\ rendered = NothingRendered
  /\ previewUrl = NoUrl
  /\ loadedImageUrl = NoUrl
  /\ resultImage = NoImage
  /\ showBbox = TRUE
  /\ envelope = NoEnvelope
  /\ frames = {}
  /\ called = "none"

Init == JobInit /\ ViewInit

(* ------------------------- user: OcrPage ------------------------------- *)
\* handleFileSelect (image branch): larger files are rejected before any read
handleFileSelect(size) ==
  /\ mounted /\ ~isProcessing /\ step = "upload"
  /\ size <= MAX_FILE_SIZE
  /\ imageData' = TRUE
  /\ step' = "options"
  /\ UNCHANGED <<jobs, currentJobId, isProcessing, processingJobId, mounted,
                 pollTimeoutRef, timers, pollFetch, submit, jobsFetch,
                 resultFetch, srvStatus, terminalHandled>>
  /\ UNCHANGED viewVars

\* "Change Document" / "Back" of the options step
ChangeDocument ==
  /\ mounted /\ ~isProcessing /\ step = "options"
  /\ step' = "upload"
  /\ imageData' = FALSE
  /\ previewUrl' = NoUrl
  /\ UNCHANGED <<jobs, currentJobId, isProcessing, processingJobId, mounted,
                 pollTimeoutRef, timers, pollFetch, submit, jobsFetch,
                 resultFetch, srvStatus, terminalHandled>>
  /\ UNCHANGED <<currentPdfPage, resultData, rendered, loadedImageUrl,
                 resultImage, showBbox, envelope, frames, called, pageVars, hook>>

\* "New Document" of the result step
ResultNewDocument ==
  /\ mounted /\ ~isProcessing /\ step = "result"
  /\ Commit(jobs, NoJob, "upload")
  /\ UNCHANGED <<imageData, isProcessing, processingJobId, mounted,
                 pollTimeoutRef, timers, pollFetch, submit, jobsFetch,
                 srvStatus, terminalHandled>>
  /\ UNCHANGED viewVars

(* ------------------------- user: AppLayout ----------------------------- *)
\* sidebar item: isAccessible && setCurrentJobId(job.id); every job of the list
\* carries an s3Key (newJob of handleSubmit, and the listing of fetchJobs)
SelectJob(id) ==
  /\ mounted /\ id \in Ids(jobs) /\ id # currentJobId
  /\ Commit(jobs, id, step)
  /\ UNCHANGED <<imageData, isProcessing, processingJobId, mounted,
                 pollTimeoutRef, timers, pollFetch, submit, jobsFetch,
                 srvStatus, terminalHandled>>
  /\ UNCHANGED viewVars

\* sidebar "New Document": setCurrentJobId(null), then OcrPage's onNewJob handler
handleNewJob ==
  /\ mounted
  /\ Commit(jobs, NoJob, "upload")
  /\ imageData' = FALSE
  /\ previewUrl' = NoUrl
  /\ UNCHANGED <<isProcessing, processingJobId, mounted, pollTimeoutRef, timers,
                 pollFetch, submit, jobsFetch, srvStatus, terminalHandled>>
  /\ UNCHANGED <<currentPdfPage, resultData, rendered, loadedImageUrl,
                 resultImage, showBbox, envelope, frames, called, pageVars, hook>>

\* sidebar delete button
RemoveJob(id) ==
  /\ mounted /\ id \in Ids(jobs)
  /\ Commit(removeJob(jobs, id), IF currentJobId = id THEN NoJob ELSE currentJobId, step)
  /\ UNCHANGED <<imageData, isProcessing, processingJobId, mounted,
                 pollTimeoutRef, timers, pollFetch, submit, jobsFetch,
                 srvStatus, terminalHandled>>
  /\ UNCHANGED viewVars

(* ---------------------------- handleSubmit ----------------------------- *)
\* the Process button: disabled while isProcessing, rendered in the options step
SubmitStart(n) ==
  /\ mounted /\ ~isProcessing /\ step = "options" /\ imageData
  /\ submit[n].pc = "idle"
  /\ \A m \in 1..(n - 1) : submit[m].pc # "idle"
  /\ isProcessing' = TRUE
  /\ submit' = [submit EXCEPT ![n].pc = "uploadUrl"]
  /\ UNCHANGED <<jobs, currentJobId, step, imageData, processingJobId, mounted,
                 pollTimeoutRef, timers, pollFetch, jobsFetch, resultFetch,
                 srvStatus, terminalHandled>>
  /\ UNCHANGED viewVars

\* mutant: a rejected upload is not noticed
UploadNeverThrows(ok) == FALSE

\* if (!uploadResponse.ok) throw ...; if (!s3UploadResponse.ok) throw ...
UploadThrows(ok) == ~ok

\* if (!response.ok) throw ... after POST /ocr (also a rejected fetch)
OcrPostThrows(resp) == resp < 0

\* mutant: the catch block leaves the status as it is
CatchKeepsProcessing == [status |-> "processing"]

\* the catch block's updateJob(jobId, { status: 'failed' })
CatchUpdates == [status |-> "failed"]

\* mutant: the catch block lists a failed job of its own
SubmitCatchAddsJob(n, up) ==
  /\ submit' = [submit EXCEPT ![n].pc = "returned", ![n].upload = up]
  /\ Commit(IF InList(LocalId(n))
            THEN updateJob(jobs, LocalId(n), [status |-> "failed"])
            ELSE addJob(jobs, OcrJob(LocalId(n), "failed", NoResult)),
            currentJobId, step)
  /\ isProcessing' = SetState(isProcessing, FALSE)
  /\ UNCHANGED <<imageData, processingJobId, mounted, pollTimeoutRef, timers,
                 pollFetch, jobsFetch, srvStatus, terminalHandled>>

\* the catch block
SubmitCatch(n, up) ==
  /\ submit' = [submit EXCEPT ![n].pc = "returned", ![n].upload = up]
  /\ Commit(updateJob(jobs, LocalId(n), CatchUpdates), currentJobId, step)
  /\ isProcessing' = SetState(isProcessing, FALSE)
  /\ UNCHANGED <<imageData, processingJobId, mounted, pollTimeoutRef, timers,
                 pollFetch, jobsFetch, srvStatus, terminalHandled>>

\* POST /upload answered
UploadUrlResponse(n, ok) ==
  /\ submit[n].pc = "uploadUrl"
  /\ IF UploadThrows(ok)
     THEN SubmitCatch(n, "rejected")
     ELSE /\ submit' = [submit EXCEPT ![n].pc = "s3Put",
                                      ![n].upload = IF ok THEN "none" ELSE "rejected"]
          /\ UNCHANGED <<jobs, currentJobId, step, imageData, isProcessing,
                         processingJobId, mounted, pollTimeoutRef, timers, pollFetch,
                         jobsFetch, resultFetch, srvStatus, terminalHandled>>
  /\ UNCHANGED viewVars

\* PUT to the signed URL answered; on success addJob(newJob) and POST /ocr
S3PutResponse(n, ok) ==
  /\ submit[n].pc = "s3Put"
  /\ IF UploadThrows(ok)
     THEN SubmitCatch(n, "rejected")
     ELSE /\ submit' = [submit EXCEPT
                          ![n].pc = "ocrPost",
                          ![n].upload = IF ok /\ @ = "none" THEN "ok" ELSE "rejected"]
          /\ Commit(addJob(jobs, OcrJob(LocalId(n), "processing", NoResult)),
                    LocalId(n), step)
          /\ UNCHANGED <<imageData, isProcessing, processingJobId, mounted,
                         pollTimeoutRef, timers, pollFetch, jobsFetch, srvStatus,
                         terminalHandled>>
  /\ UNCHANGED viewVars

\* mutant: pollJobStatus is entered twice
PollIssuedTwice(pf, jobId) == [pf EXCEPT ![jobId]["sent"] = @ + 2]

\* the first poll request of pollJobStatus(jobId)
PollIssued(pf, jobId) == [pf EXCEPT ![jobId]["sent"] = @ + 1]

\* POST /ocr answered: replaceJobId, setProcessingJobId, pollJobStatus(backendJobId)
OcrResponse(n) ==
  /\ submit[n].pc = "ocrPost"
  /\ submit[n].resp # 0
  /\ IF OcrPostThrows(submit[n].resp)
     THEN SubmitCatch(n, submit[n].upload)
     ELSE LET backendJobId == submit[n].resp IN
          /\ pollFetch[backendJobId]["sent"] < MaxInFlight
          /\ submit' = [submit EXCEPT ![n].pc = "returned"]
          /\ Commit(replaceJobId(jobs, LocalId(n), backendJobId),
                    IF currentJobId = LocalId(n) THEN backendJobId ELSE currentJobId,
                    step)
          /\ processingJobId' = SetState(processingJobId, backendJobId)
          /\ pollFetch' = PollIssued(pollFetch, backendJobId)
          /\ UNCHANGED <<imageData, isProcessing, mounted, pollTimeoutRef, timers,
                         jobsFetch, srvStatus, terminalHandled>>
  /\ UNCHANGED viewVars

(* ---------------------------- pollJobStatus ---------------------------- *)
\* mutant: the failed branch attaches a result as well
PollUpdatesAlwaysResult(jobId, status) == [status |-> status, result |-> jobId]

\* updateJob(jobId, ...) of the completed and of the failed branch
PollUpdates(jobId, status) ==
  IF status = "completed"
  THEN [status |-> "completed", result |-> jobId]
  ELSE [status |-> "failed"]

\* mutant: the terminal branches fall through to setTimeout
PollAlwaysReschedules(outcome) == TRUE

\* the branches that end in setTimeout(() => pollJobStatus(jobId), ...)
PollReschedules(outcome) == outcome \notin Terminal

\* mutant: the catch branch reuses the success delay
PollDelaySame(outcome) == PollInterval

\* the delay of the follow-up poll
PollDelay(outcome) == IF outcome = "error" THEN ErrorInterval ELSE PollInterval

\* setStep of the poll handler
PollStep(jobId, outcome, cur, st) == IF outcome = "completed" THEN "result" ELSE st

FreeHandles == {h \in Handles : timers[h] = NoTimer}

\* setTimeout: the smallest handle that is not pending
NewHandle == CHOOSE h \in FreeHandles : \A k \in FreeHandles : h <= k

\* a response of GET /ocr/{jobId} is handled (the code after the await)
PollHandle(jobId, outcome) ==
  /\ outcome # "sent"
  /\ pollFetch[jobId][outcome] > 0
  /\ pollFetch' = [pollFetch EXCEPT ![jobId][outcome] = @ - 1]
  /\ IF outcome \in Terminal
     THEN /\ Commit(updateJob(jobs, jobId, PollUpdates(jobId, outcome)), currentJobId,
                    PollStep(jobId, outcome, currentJobId, step))
          /\ isProcessing' = SetState(isProcessing, FALSE)
          /\ processingJobId' = SetState(processingJobId, NoJob)
          /\ terminalHandled' = [terminalHandled EXCEPT
                                   ![jobId] = IF @ < 2 THEN @ + 1 ELSE @]
     ELSE UNCHANGED <<jobs, currentJobId, step, resultFetch, isProcessing,
                      processingJobId, terminalHandled>>
  /\ IF PollReschedules(outcome)
     THEN /\ FreeHandles # {}
          /\ timers' = [timers EXCEPT
                          ![NewHandle] = [job |-> jobId, delay |-> PollDelay(outcome)]]
          /\ pollTimeoutRef' = NewHandle
     ELSE UNCHANGED <<timers, pollTimeoutRef>>
  /\ UNCHANGED <<imageData, mounted, submit, jobsFetch, srvStatus>>
  /\ UNCHANGED viewVars

\* a poll timer fires: pollJobStatus(jobId) issues the next request
PollTimerFires(h) ==
  /\ timers[h] # NoTimer
  /\ pollFetch[timers[h].job]["sent"] < MaxInFlight
  /\ timers' = [timers EXCEPT ![h] = NoTimer]
  /\ pollFetch' = PollIssued(pollFetch, timers[h].job)
  /\ UNCHANGED <<jobs, currentJobId, step, imageData, isProcessing, processingJobId,
                 mounted, pollTimeoutRef, submit, jobsFetch, resultFetch, srvStatus,
                 terminalHandled>>
  /\ UNCHANGED viewVars

\* the tree is torn down: the cleanup of the poll effect runs
\* clearTimeout(pollTimeoutRef.current), and the components' state is discarded
Unmount ==
  /\ mounted
  /\ mounted' = FALSE
  /\ timers' = [h \in Handles |-> IF h = pollTimeoutRef THEN NoTimer ELSE timers[h]]
  /\ pollTimeoutRef' = 0
  /\ jobs' = <<>>
  /\ currentJobId' = NoJob
  /\ step' = "upload"
  /\ imageData' = FALSE
  /\ isProcessing' = FALSE
  /\ processingJobId' = NoJob
  /\ UNCHANGED <<pollFetch, submit, jobsFetch, resultFetch, srvStatus, terminalHandled>>
  /\ UNCHANGED viewVars

(* ------------------------ fetchJobs, fetchJobResult -------------------- *)
\* the fetch-on-auth effect calls fetchJobs: after the mount, and again each
\* time auth.user.id_token changes
FetchJobsCalled(k) ==
  /\ mounted
  /\ jobsFetch[k].st = "idle"
  /\ \A m \in 1..(k - 1) : jobsFetch[m].st # "idle"
  /\ jobsFetch' = [jobsFetch EXCEPT ![k].st = "sent"]
  /\ UNCHANGED <<jobs, currentJobId, step, imageData, isProcessing, processingJobId,
                 mounted, pollTimeoutRef, timers, pollFetch, submit, resultFetch,
                 srvStatus, terminalHandled>>
  /\ UNCHANGED viewVars

\* GET /jobs answered: setJobs(fetchedJobs); a failed request changes nothing
JobsResponse(k, ok) ==
  /\ jobsFetch[k].st = "answered"
  /\ jobsFetch' = [jobsFetch EXCEPT ![k] = [st |-> "done", snap |-> NoListing]]
  /\ IF ok
     THEN Commit(fetchedJobs(jobsFetch[k].snap), currentJobId, step)
     ELSE UNCHANGED <<jobs, currentJobId, step, resultFetch>>
  /\ UNCHANGED <<imageData, isProcessing, processingJobId, mounted, pollTimeoutRef,
                 timers, pollFetch, submit, srvStatus, terminalHandled>>
  /\ UNCHANGED viewVars

\* fetchJobResult answered: if (result) { updateJob(id, { result }); setStep('result') }
ResultResponse(id, ok) ==
  /\ id \in resultFetch
  /\ IF ok /\ srvStatus[id] = "completed"
     THEN CommitWith(updateJob(jobs, id, [result |-> id]), currentJobId, "result",
                     resultFetch \ {id})
     ELSE UNCHANGED <<jobs, currentJobId, step>> /\ resultFetch' = resultFetch \ {id}
  /\ UNCHANGED <<imageData, isProcessing, processingJobId, mounted, pollTimeoutRef,
                 timers, pollFetch, submit, jobsFetch, srvStatus, terminalHandled>>
  /\ UNCHANGED viewVars

(* ------------------------------ backend -------------------------------- *)
UnusedIds == {j \in ServerIds : srvStatus[j] = "none"}

\* POST /ocr: the backend creates the job and answers { job_id }, or fails
ServerAnswersOcr(n, ok) ==
  /\ submit[n].pc = "ocrPost"
  /\ submit[n].resp = 0
  /\ IF ok
     THEN /\ UnusedIds # {}
          /\ LET id == CHOOSE j \in UnusedIds : \A k \in UnusedIds : j <= k IN
             /\ srvStatus' = [srvStatus EXCEPT ![id] = "processing"]
             /\ submit' = [submit EXCEPT ![n].resp = id]
     ELSE /\ submit' = [submit EXCEPT ![n].resp = 0 - 1]
          /\ UNCHANGED srvStatus
  /\ UNCHANGED <<jobs, currentJobId, step, imageData, isProcessing, processingJobId,
                 mounted, pollTimeoutRef, timers, pollFetch, jobsFetch, resultFetch,
                 terminalHandled>>
  /\ UNCHANGED viewVars

\* GET /ocr/{id}: the backend reports its status, or the request fails
ServerAnswersPoll(id, ok) ==
  /\ pollFetch[id]["sent"] > 0
  /\ LET outcome == IF ok THEN srvStatus[id] ELSE "error" IN
     /\ pollFetch[id][outcome] < MaxInFlight
     /\ pollFetch' = [pollFetch EXCEPT ![id]["sent"] = @ - 1,
                                       ![id][outcome] = @ + 1]
  /\ UNCHANGED <<jobs, currentJobId, step, imageData, isProcessing, processingJobId,
                 mounted, pollTimeoutRef, timers, submit, jobsFetch, resultFetch,
                 srvStatus, terminalHandled>>
  /\ UNCHANGED viewVars

\* GET /jobs: the backend lists the jobs it has
ServerAnswersJobs(k) ==
  /\ jobsFetch[k].st = "sent"
  /\ jobsFetch' = [jobsFetch EXCEPT ![k] = [st |-> "answered", snap |-> srvStatus]]
  /\ UNCHANGED <<jobs, currentJobId, step, imageData, isProcessing, processingJobId,
                 mounted, pollTimeoutRef, timers, pollFetch, submit, resultFetch,
                 srvStatus, terminalHandled>>
  /\ UNCHANGED viewVars

\* the inference service finishes a job
ServerFinishes(id, status) ==
  /\ srvStatus[id] = "processing"
  /\ srvStatus' = [srvStatus EXCEPT ![id] = status]
  /\ UNCHANGED <<jobs, currentJobId, step, imageData, isProcessing, processingJobId,
                 mounted, pollTimeoutRef, timers, pollFetch, submit, jobsFetch,
                 resultFetch, terminalHandled>>
  /\ UNCHANGED viewVars

(* ----------------------------- specification --------------------------- *)
\* every step but the sidebar's delete button
KeepNext ==
  \/ \E size \in FileSizes : handleFileSelect(size)
  \/ ChangeDocument
  \/ ResultNewDocument
  \/ \E id \in Ids(jobs) : SelectJob(id)
  \/ handleNewJob
  \/ \E n \in Submissions : SubmitStart(n)
  \/ \E n \in Submissions, ok \in BOOLEAN : UploadUrlResponse(n, ok)
  \/ \E n \in Submissions, ok \in BOOLEAN : S3PutResponse(n, ok)
  \/ \E n \in Submissions : OcrResponse(n)
  \/ \E id \in ServerIds, o \in PollStates : PollHandle(id, o)
  \/ \E h \in Handles : PollTimerFires(h)
  \/ Unmount
  \/ \E k \in 1..MaxFetchJobs : FetchJobsCalled(k)
  \/ \E k \in 1..MaxFetchJobs, ok \in BOOLEAN : JobsResponse(k, ok)
  \/ \E id \in ServerIds, ok \in BOOLEAN : ResultResponse(id, ok)
  \/ \E n \in Submissions, ok \in BOOLEAN : ServerAnswersOcr(n, ok)
  \/ \E id \in ServerIds, ok \in BOOLEAN : ServerAnswersPoll(id, ok)
  \/ \E k \in 1..MaxFetchJobs : ServerAnswersJobs(k)
  \/ \E id \in ServerIds, status \in Terminal : ServerFinishes(id, status)

Next ==
  \/ KeepNext
  \/ \E id \in Ids(jobs) : RemoveJob(id)

Spec == Init /\ [][Next]_vars

TypeOK ==
  /\ \A i \in 1..Len(jobs) :
       /\ jobs[i].id \in ServerIds \cup {LocalId(n) : n \in Submissions}
       /\ jobs[i].status \in {"processing", "completed", "failed"}
       /\ jobs[i].result \in {NoResult} \cup ServerIds
  /\ step \in {"upload", "options", "result"}
  /\ pollTimeoutRef \in {0} \cup Handles
  /\ resultFetch \subseteq ServerIds

(* ------------------- AppLayout's named list operations ----------------- *)
MaxJobs == 2            \* jobs in the list of the list-operation specification

\* ids a job of the list can carry: a local id, assigned ids, one more backend id
ListIds == {LocalId(1)} \cup ServerIds \cup {MaxSubmissions + 1}

\* a job as the code builds it: newJob of handleSubmit, a completed job with its
\* result, a job restored by fetchJobs, a failed job
JobRecords ==
  {OcrJob(id, "processing", NoResult) : id \in ListIds}
    \cup {OcrJob(id, "completed", id) : id \in ListIds}
    \cup {OcrJob(id, "completed", NoResult) : id \in ListIds}
    \cup {OcrJob(id, "failed", NoResult) : id \in ListIds}

\* lists with pairwise distinct ids
JobLists ==
  {js \in UNION {[1..n -> JobRecords] : n \in 0..MaxJobs} :
     \A i, k \in 1..Len(js) : i # k => js[i].id # js[k].id}

\* the updates the page passes to updateJob(id, ...)
JobUpdates(id) ==
  {[status |-> "failed"], [status |-> "completed", result |-> id], [result |-> id]}

ListInit ==
  /\ jobs \in JobLists
  /\ currentJobId \in {NoJob} \cup ListIds
  /\ LifecycleIdle
  /\ ViewInit

\* mutant: replaceJobId retargets the selection whatever it was
retargetAlways(cur, oldId, newId) == newId

\* setCurrentJobId((prev) => (prev === oldId ? newId : prev)) of replaceJobId
retarget(cur, oldId, newId) == IF cur = oldId THEN newId ELSE cur

ListFrame ==
  UNCHANGED <<step, imageData, isProcessing, processingJobId, mounted,
              pollTimeoutRef, timers, pollFetch, submit, jobsFetch, resultFetch,
              srvStatus, terminalHandled, currentPdfPage, resultData, rendered,
              previewUrl, loadedImageUrl, resultImage, showBbox, envelope,
              frames, pageVars, hook>>

\* addJob(job): setJobsState((prev) => [job, ...prev]); setCurrentJobId(job.id)
ListAddJob(job) ==
  /\ called = "none"
  /\ Len(jobs) < MaxJobs
  /\ job.id \notin Ids(jobs)
  /\ jobs' = addJob(jobs, job)
  /\ currentJobId' = job.id
  /\ called' = "addJob"
  /\ ListFrame

\* updateJob(id, updates)
ListUpdateJob(id, updates) ==
  /\ called = "none"
  /\ jobs' = updateJob(jobs, id, updates)
  /\ currentJobId' = currentJobId
  /\ called' = "updateJob"
  /\ ListFrame

\* replaceJobId(oldId, newId), newId fresh from the backend
ListReplaceJobId(oldId, newId) ==
  /\ called = "none"
  /\ newId \notin Ids(jobs)
  /\ jobs' = replaceJobId(jobs, oldId, newId)
  /\ currentJobId' = retarget(currentJobId, oldId, newId)
  /\ called' = "replaceJobId"
  /\ ListFrame

\* one operation is applied to a list drawn by ListInit
ListNext ==
  \/ \E job \in JobRecords : ListAddJob(job)
  \/ \E id \in ListIds : \E u \in JobUpdates(id) : ListUpdateJob(id, u)
  \/ \E oldId \in ListIds, newId \in ListIds : ListReplaceJobId(oldId, newId)

ListSpec == ListInit /\ [][ListNext]_vars


(* ----------------------- getResultData: the envelope ------------------- *)
MaxPages == 2           \* elements of an envelope's results array

\* the OcrResultData an envelope carries: of = 0 for the direct res, of = i for
\* the payload of results[i - 1]
Payload(k) == [shape |-> "payload", of |-> k]

\* one element of results: Format 2 { res: {...} } or Format 3, the data itself
Elements(k) == {[res |-> Payload(k)], Payload(k)}

ResultArrays ==
  UNION {{a \in [1..n -> UNION {Elements(k) : k \in 1..n}] :
            \A i \in 1..n : a[i] \in Elements(i)} : n \in 0..MaxPages}

\* a results field that holds an array
Array(a) == [shape |-> "array", items |-> a]

\* job.result as the backend stores it
Envelopes ==
  {[res |-> r, results |-> a] :
     r \in {Absent, Payload(0)}, a \in {Absent} \cup {Array(x) : x \in ResultArrays}}

\* mutant: the page falls back to the last element instead of the first
pageResultLast(results, pageIndex) ==
  IF pageIndex + 1 \in DOMAIN results THEN results[pageIndex + 1]
  ELSE results[Len(results)]

\* result.results[pageIndex] || result.results[0]  (0-based pageIndex)
pageResult(results, pageIndex) ==
  IF pageIndex + 1 \in DOMAIN results THEN results[pageIndex + 1] ELSE results[1]

\* mutant: the results array is consulted before the direct res
unwrapResultsFirst(result, page) ==
  IF result.results # Absent /\ Len(result.results.items) > 0
    THEN LET pr == pageResult(result.results.items, page - 1)
         IN  IF "res" \in DOMAIN pr THEN pr.res ELSE pr
  ELSE IF result.res # Absent THEN result.res
  ELSE Null

\* getResultData from "if (result.res)" on, for a job that has a result
unwrap(result, page) ==
  IF result.res # Absent THEN result.res
  ELSE IF result.results # Absent /\ Len(result.results.items) > 0
    THEN LET pr == pageResult(result.results.items, page - 1)
         IN  IF "res" \in DOMAIN pr THEN pr.res ELSE pr
  ELSE Null

\* the job getResultData reads: currentJob, else the job being processed, else
\* the job of currentJobId; NoJob when none is found
resultJob(js, cur, procId) ==
  IF cur \in Ids(js) THEN cur
  ELSE IF procId # NoJob /\ procId \in Ids(js) THEN procId
  ELSE IF cur # NoJob /\ cur \in Ids(js) THEN cur
  ELSE NoJob

\* result is the JSON the job's result field holds
getResultData(js, cur, procId, page, result) ==
  LET id == resultJob(js, cur, procId)
  IN  IF id = NoJob THEN Null
      ELSE IF FindJob(js, id).result = NoResult THEN Null
      ELSE unwrap(result, page)

EnvelopeInit ==
  /\ PageInit
  /\ hook = HookIdle
  /\ jobs \in {<<>>} \cup {<<OcrJob(1, "completed", r)>> : r \in {NoResult, 1}}
  /\ envelope \in Envelopes
  /\ currentJobId \in {NoJob, 1}
  /\ processingJobId \in {NoJob, 1}
  /\ currentPdfPage \in 1..(MaxPages + 1)
  /\ step = "result"
  /\ imageData = FALSE
  /\ isProcessing = FALSE
  /\ RequestsIdle
  /\ resultData = Null
  /\ rendered = NothingRendered
  /\ previewUrl = NoUrl
  /\ loadedImageUrl = NoUrl
  /\ resultImage = NoImage
  /\ showBbox = TRUE
  /\ frames = {}
  /\ called = "none"

\* const resultData = getResultData()
GetResultData ==
  /\ called = "none"
  /\ resultData' = getResultData(jobs, currentJobId, processingJobId,
                                  currentPdfPage, envelope)
  /\ called' = "getResultData"
  /\ UNCHANGED <<jobVars, currentPdfPage, rendered, previewUrl, loadedImageUrl,
                 resultImage, showBbox, envelope, frames, pageVars, hook>>

EnvelopeNext == GetResultData

EnvelopeSpec == EnvelopeInit /\ [][EnvelopeNext]_vars


(* -------------------- renderBlocksView: group redistribution ----------- *)
MaxBlocks == 3          \* blocks (or recognised text lines) of one payload

\* block_content is held as the sequence content.split('\n'); "" and " " are
\* the lines that trim() empties
Blank(l) == l \in {"", " "}

\* block_content && block_content.trim() !== ''
HasContent(content) == \E i \in 1..Len(content) : ~Blank(content[i])

\* content.split('\n').filter((l) => l.trim())
Lines(content) ==
  LET keep(l) == ~Blank(l) IN SelectSeq(content, keep)

\* groupMap.get(g): the indices of the group in document order
GroupIndices(blocks, g) ==
  LET member(i) == blocks[i].group_id = g
  IN  SelectSeq([i \in 1..Len(blocks) |-> i], member)

\* indices.find(content non-blank); 0 stands for undefined
BlockWithContent(blocks, indices) ==
  IF \E k \in 1..Len(indices) : HasContent(blocks[indices[k]].block_content)
    THEN indices[CHOOSE k \in 1..Len(indices) :
                   /\ HasContent(blocks[indices[k]].block_content)
                   /\ \A m \in 1..(k - 1) :
                        ~HasContent(blocks[indices[m]].block_content)]
  ELSE 0

\* indices.filter(idx !== blockWithContent && content blank)
EmptyIndices(blocks, indices, blockWithContent) ==
  LET empty(i) == i # blockWithContent /\ ~HasContent(blocks[i].block_content)
  IN  SelectSeq(indices, empty)

\* position of idx in the sequence of indices, 0 when absent
PositionIn(indices, idx) ==
  IF \E k \in 1..Len(indices) : indices[k] = idx
    THEN CHOOSE k \in 1..Len(indices) : indices[k] = idx
  ELSE 0

\* mutant: one line is handed on per pass, the content block keeps the others
ProcessedContentOneLine(blocks, idx) ==
  LET indices == GroupIndices(blocks, blocks[idx].group_id)
      bwc     == BlockWithContent(blocks, indices)
      lines   == IF bwc = 0 THEN <<>> ELSE Lines(blocks[bwc].block_content)
      empties == IF bwc = 0 THEN <<>> ELSE EmptyIndices(blocks, indices, bwc)
  IN  IF Len(indices) <= 1 \/ bwc = 0 \/ Len(lines) <= 1 \/ Len(empties) = 0
        THEN blocks[idx].block_content
      ELSE IF idx = bwc THEN <<lines[1]>> \o SubSeq(lines, 3, Len(lines))
      ELSE IF idx = empties[1] THEN <<lines[2]>>
      ELSE blocks[idx].block_content

\* mutant: every empty sibling receives the first remaining line
ProcessedContentSame(blocks, idx) ==
  LET indices == GroupIndices(blocks, blocks[idx].group_id)
      bwc     == BlockWithContent(blocks, indices)
      lines   == IF bwc = 0 THEN <<>> ELSE Lines(blocks[bwc].block_content)
      empties == IF bwc = 0 THEN <<>> ELSE EmptyIndices(blocks, indices, bwc)
  IN  IF Len(indices) <= 1 \/ bwc = 0 \/ Len(lines) <= 1 \/ Len(empties) = 0
        THEN blocks[idx].block_content
      ELSE IF idx = bwc THEN <<lines[1]>>
      ELSE IF PositionIn(empties, idx) > 0 THEN <<lines[2]>>
      ELSE blocks[idx].block_content

\* block_content of processedBlocks[idx] after the groupMap.forEach
ProcessedContent(blocks, idx) ==
  LET indices == GroupIndices(blocks, blocks[idx].group_id)
      bwc     == BlockWithContent(blocks, indices)
      lines   == IF bwc = 0 THEN <<>> ELSE Lines(blocks[bwc].block_content)
      empties == IF bwc = 0 THEN <<>> ELSE EmptyIndices(blocks, indices, bwc)
      i       == PositionIn(empties, idx)
  IN  IF Len(indices) <= 1 \/ bwc = 0 \/ Len(lines) <= 1 \/ Len(empties) = 0
        THEN blocks[idx].block_content
      ELSE IF idx = bwc THEN <<lines[1]>>
      ELSE IF i > 0 /\ i + 1 <= Len(lines) THEN <<lines[i + 1]>>
      ELSE blocks[idx].block_content

processedBlocks(blocks) ==
  [idx \in 1..Len(blocks) |->
     [blocks[idx] EXCEPT !.block_content = ProcessedContent(blocks, idx)]]

visualBlockTypes == {"image", "picture", "figure", "chart", "seal", "stamp"}

\* mutant: only the blocks with text are kept
filteredBlocksTextOnly(blocks) ==
  LET kept(b) == HasContent(b.block_content)
  IN  SelectSeq(processedBlocks(blocks), kept)

filteredBlocks(blocks) ==
  LET kept(b) == HasContent(b.block_content) \/ b.block_label \in visualBlockTypes
  IN  SelectSeq(processedBlocks(blocks), kept)


(* ---------------------- renderResultStep: the result view -------------- *)
ImageSize == 10         \* natural width and height of the document image
ClientSize == 20        \* width and height the image is laid out at

Url == "blob:1"         \* the preview URL of the job shown

\* a mounted <img src={url}> before and after its load event
ImageOf(url, complete) ==
  [url |-> url, complete |-> complete,
   naturalWidth |-> IF complete THEN ImageSize ELSE 0,
   naturalHeight |-> IF complete THEN ImageSize ELSE 0,
   clientWidth |-> ClientSize, clientHeight |-> ClientSize]

ImageElement(complete) == ImageOf(Url, complete)

\* bounding boxes [x1, y1, x2, y2]: none detected, proper, inverted, flat
ZeroBox == <<0, 0, 0, 0>>

Boxes == {ZeroBox, <<0, 0, 10, 10>>, <<10, 10, 0, 0>>, <<5, 0, 5, 10>>}

OcrBlock(id, label, content, bbox, group) ==
  [block_id |-> id, block_label |-> label, block_content |-> content,
   block_bbox |-> bbox, group_id |-> group]

\* what a block can hold: nothing, one line, lines, lines around a blank line
Contents == {<<"">>, <<"a">>, <<"a", "b">>, <<"a", " ", "b">>, <<"a", "b", "c">>}

Groups == {1, 2}

\* label, content and group of a block; a visual block carries no text
BlockKinds ==
  {[label |-> "text", content |-> c, group |-> g] : c \in Contents, g \in Groups}
    \cup {[label |-> "image", content |-> <<"">>, group |-> g] : g \in Groups}

\* blocks that differ in content and grouping (block_id is the position)
TextBlocks(kinds) ==
  [i \in DOMAIN kinds |-> OcrBlock(i, kinds[i].label, kinds[i].content,
                                   <<0, 0, 10, 10>>, kinds[i].group)]

\* blocks that differ in their bounding boxes
BoxedBlocks(boxes) ==
  [i \in DOMAIN boxes |-> OcrBlock(i, "text", <<"a">>, boxes[i], i)]

\* OcrStructureResultData
StructureResult(w, bs) == [width |-> w, height |-> w, parsing_res_list |-> bs]

\* OcrV5ResultData of n texts: rec_boxes may hold fewer boxes than that
V5Result(n, boxes) == [rec_texts |-> [i \in 1..n |-> "t"], rec_boxes |-> boxes]

\* a JSON object that is neither format
Unrecognized == [message |-> "unsupported"]

\* isOcrV5Result: 'rec_texts' in data && Array.isArray(data.rec_texts)
isOcrV5Result(data) == "rec_texts" \in DOMAIN data

\* isStructureResult
isStructureResult(data) == "parsing_res_list" \in DOMAIN data

\* rec_boxes[idx] (0-based idx), [0, 0, 0, 0] when the line has no box
getV5Bbox(data, idx) ==
  IF idx + 1 \in DOMAIN data.rec_boxes THEN data.rec_boxes[idx + 1] ELSE ZeroBox

\* the <div className="block-overlay"> of item idx (0-based)
Rectangle(idx, bbox, scaleX, scaleY) ==
  [of |-> idx,
   left |-> bbox[1] * scaleX, top |-> bbox[2] * scaleY,
   width |-> (bbox[3] - bbox[1]) * scaleX, height |-> (bbox[4] - bbox[2]) * scaleY]

\* React renders the non-null results of items.map(...)
Children(mapped) ==
  LET element(c) == c # Null IN SelectSeq(mapped, element)

\* blocks.map((block, idx) => ...) of the structure branch
structureOverlays(data, blocks, imageEl) ==
  Children([k \in 1..Len(blocks) |->
              LET idx == k - 1
              IN  IF data.width # 0 /\ data.height # 0
                    THEN Rectangle(idx, blocks[idx + 1].block_bbox,
                           imageEl.clientWidth \div data.width,
                           imageEl.clientHeight \div data.height)
                  ELSE Null])

\* mutant: the PP-OCRv5 branch draws every line
v5OverlaysAll(v5Data, imageEl) ==
  Children([k \in 1..Len(v5Data.rec_texts) |->
              LET idx == k - 1
              IN  IF imageEl.naturalWidth # 0 /\ imageEl.naturalHeight # 0
                    THEN Rectangle(idx, getV5Bbox(v5Data, idx),
                           imageEl.clientWidth \div imageEl.naturalWidth,
                           imageEl.clientHeight \div imageEl.naturalHeight)
                  ELSE Null])

\* v5Data.rec_texts.map((_, idx) => ...) of the PP-OCRv5 branch
v5Overlays(v5Data, imageEl) ==
  Children([k \in 1..Len(v5Data.rec_texts) |->
              LET idx == k - 1
              IN  IF getV5Bbox(v5Data, idx) # ZeroBox
                       /\ imageEl.naturalWidth # 0 /\ imageEl.naturalHeight # 0
                    THEN Rectangle(idx, getV5Bbox(v5Data, idx),
                           imageEl.clientWidth \div imageEl.naturalWidth,
                           imageEl.clientHeight \div imageEl.naturalHeight)
                  ELSE Null])

\* the overlays inside {previewUrl && (...)}
overlays(data, url, loadedUrl, imageEl, bbox) ==
  IF url = NoUrl \/ ~bbox \/ loadedUrl # url \/ imageEl = NoImage THEN <<>>
  ELSE IF isOcrV5Result(data) THEN v5Overlays(data, imageEl)
  ELSE structureOverlays(data,
                         IF isStructureResult(data) THEN data.parsing_res_list
                         ELSE <<>>,
                         imageEl)

\* renderResultStep with the Blocks tab open (resultTab starts as 'blocks')
renderResultStep(data, url, loadedUrl, imageEl, bbox) ==
  IF data = Null THEN [NothingRendered EXCEPT !.page = "No result available"]
  ELSE LET blocks == IF isStructureResult(data) THEN data.parsing_res_list ELSE <<>>
       IN  [page |-> "result",
            overlays |-> overlays(data, url, loadedUrl, imageEl, bbox),
            processed |-> processedBlocks(blocks),
            blocks |-> filteredBlocks(blocks),
            panel |-> IF isOcrV5Result(data)
                        THEN IF Len(data.rec_texts) = 0 THEN "No text detected"
                             ELSE "texts"
                      ELSE IF Len(filteredBlocks(blocks)) = 0
                        THEN "No blocks detected"
                      ELSE "blocks"]

\* Format 1 of job.result: { res: {...} }
Direct(data) == [res |-> data, results |-> Absent]

\* the image as the result view can hold it: no preview; an image still
\* loading; a loaded image
ImageStates ==
  {<<NoUrl, NoUrl, NoImage>>,
   <<Url, NoUrl, ImageElement(FALSE)>>,
   <<Url, Url, ImageElement(TRUE)>>}

\* the page shows job.result e with image state im and the overlay toggle b
Shown(e, im, b) ==
  /\ envelope = e
  /\ previewUrl = im[1]
  /\ loadedImageUrl = im[2]
  /\ resultImage = im[3]
  /\ showBbox = b

\* payloads that differ in their boxes are shown with every image state, the
\* ones that differ in their block contents with the loaded image
RenderInit ==
  /\ PageInit
  /\ hook = HookIdle
  /\ \/ \E n \in 0..MaxBlocks : \E kinds \in [1..n -> BlockKinds] :
          Shown(Direct(StructureResult(ImageSize, TextBlocks(kinds))),
                <<Url, Url, ImageElement(TRUE)>>, TRUE)
     \/ \E im \in ImageStates, b \in BOOLEAN :
          \/ \E n \in 0..MaxBlocks : \E boxes \in [1..n -> Boxes] :
               \E w \in {0, ImageSize} :
                 Shown(Direct(StructureResult(w, BoxedBlocks(boxes))), im, b)
          \/ \E n \in 0..MaxBlocks : \E m \in 0..n : \E boxes \in [1..m -> Boxes] :
               Shown(Direct(V5Result(n, boxes)), im, b)
          \/ Shown(Direct(Unrecognized), im, b)
          \/ Shown(NoEnvelope, im, b)
  /\ jobs = <<OcrJob(1, "completed", 1)>>
  /\ currentJobId = 1
  /\ processingJobId = NoJob
  /\ currentPdfPage = 1
  /\ step = "result"
  /\ imageData = FALSE
  /\ isProcessing = FALSE
  /\ RequestsIdle
  /\ resultData = Null
  /\ rendered = NothingRendered
  /\ frames = {}
  /\ called = "none"

\* one render of the page in the result step
RenderResultStep ==
  /\ called = "none"
  /\ step = "result" /\ ~isProcessing
  /\ LET data == getResultData(jobs, currentJobId, processingJobId,
                               currentPdfPage, envelope)
     IN  /\ resultData' = data
         /\ rendered' = renderResultStep(data, previewUrl, loadedImageUrl,
                                         resultImage, showBbox)
  /\ called' = "renderResultStep"
  /\ UNCHANGED <<jobVars, currentPdfPage, previewUrl, loadedImageUrl,
                 resultImage, showBbox, envelope, frames, pageVars, hook>>

RenderNext == RenderResultStep

RenderSpec == RenderInit /\ [][RenderNext]_vars


(* ------------------- the result image and its loaded flag -------------- *)
\* preview URLs: the presigned S3 URL and the data URLs of two rendered pages
PreviewUrls == {Url, "data:1", "data:2"}

\* previewUrl?.startsWith('data:')
IsDataUrl(url) == url \in {"data:1", "data:2"}

\* what OcrPage returns with step stepv, job cur, and the ref holding imageEl
View(stepv, cur, url, loadedUrl, imageEl, bbox) ==
  IF stepv # "result" THEN NothingRendered
  ELSE renderResultStep(getResultData(jobs, cur, processingJobId, currentPdfPage,
                                      envelope),
                        url, loadedUrl, imageEl, bbox)

\* the <img key={previewUrl}> after the commit: kept while the key is the same,
\* mounted anew (not yet loaded) otherwise, absent outside the result view
Mount(stepv, cur, url, imageEl) ==
  IF \/ stepv # "result"
     \/ url = NoUrl
     \/ getResultData(jobs, cur, processingJobId, currentPdfPage, envelope) = Null
    THEN NoImage
  ELSE IF imageEl # NoImage /\ imageEl.url = url THEN imageEl
  ELSE ImageOf(url, FALSE)

ImageInit ==
  /\ PageInit
  /\ hook = HookIdle
  /\ jobs = <<OcrJob(1, "completed", 1)>>
  /\ currentJobId = 1
  /\ processingJobId = NoJob
  /\ step = "result"
  /\ imageData = FALSE
  /\ isProcessing = FALSE
  /\ RequestsIdle
  /\ currentPdfPage = 1
  /\ envelope \in {Direct(StructureResult(ImageSize, BoxedBlocks(<<(<<0, 0, 10, 10>>)>>))),
                   Direct(V5Result(1, <<(<<0, 0, 10, 10>>)>>))}
  /\ resultData = Null
  /\ rendered = NothingRendered
  /\ previewUrl = NoUrl
  /\ loadedImageUrl = NoUrl
  /\ resultImage = NoImage
  /\ showBbox = TRUE
  /\ frames = {}
  /\ called = "none"

ImageFrame ==
  UNCHANGED <<jobs, imageData, isProcessing, processingJobId, mounted,
              pollTimeoutRef, timers, pollFetch, submit, jobsFetch, resultFetch,
              srvStatus, terminalHandled, currentPdfPage, resultData, envelope,
              pageVars, hook>>

\* setPreviewUrl(url) with a new value (job switch, page navigation, retry):
\* the render that sees it still reads the old flag and the old element
SetPreviewUrl(url) ==
  /\ called # "setPreviewUrl"
  /\ url # previewUrl
  /\ previewUrl' = url
  /\ rendered' = View(step, currentJobId, url, loadedImageUrl, resultImage, showBbox)
  /\ resultImage' = Mount(step, currentJobId, url, resultImage)
  /\ called' = "setPreviewUrl"
  /\ UNCHANGED <<step, currentJobId, loadedImageUrl, showBbox, frames>>
  /\ ImageFrame

\* useEffect(..., [previewUrl]): runs after that commit, before any other render
PreviewUrlEffect ==
  /\ called = "setPreviewUrl"
  /\ loadedImageUrl' = NoUrl
  /\ frames' = IF IsDataUrl(previewUrl) THEN frames \cup {previewUrl} ELSE frames
  /\ rendered' = IF loadedImageUrl = NoUrl THEN rendered
                 ELSE View(step, currentJobId, previewUrl, NoUrl, resultImage, showBbox)
  /\ called' = "effect"
  /\ UNCHANGED <<step, currentJobId, previewUrl, resultImage, showBbox>>
  /\ ImageFrame

\* the load event of the mounted image: onLoad={() => setLoadedImageUrl(previewUrl)}
ImageLoads ==
  /\ called # "setPreviewUrl"
  /\ resultImage # NoImage
  /\ ~resultImage.complete
  /\ resultImage' = ImageOf(resultImage.url, TRUE)
  /\ loadedImageUrl' = resultImage.url
  /\ rendered' = IF loadedImageUrl = resultImage.url THEN rendered
                 ELSE View(step, currentJobId, previewUrl, resultImage.url,
                           resultImage', showBbox)
  /\ called' = "onLoad"
  /\ UNCHANGED <<step, currentJobId, previewUrl, showBbox, frames>>
  /\ ImageFrame

\* checkComplete of the effect that ran for previewUrl = url
AnimationFrame(url) ==
  /\ called # "setPreviewUrl"
  /\ url \in frames
  /\ frames' = frames \ {url}
  /\ LET complete == /\ resultImage # NoImage
                     /\ resultImage.complete
                     /\ resultImage.naturalWidth > 0
         loaded == IF complete THEN url ELSE loadedImageUrl
     IN  /\ loadedImageUrl' = loaded
         /\ rendered' = IF loaded = loadedImageUrl THEN rendered
                        ELSE View(step, currentJobId, previewUrl, loaded,
                                  resultImage, showBbox)
  /\ called' = "checkComplete"
  /\ UNCHANGED <<step, currentJobId, previewUrl, resultImage, showBbox>>
  /\ ImageFrame

\* any other state change of the page, e.g. setHoveredBlockId: a render
Rerender ==
  /\ called # "setPreviewUrl"
  /\ rendered' = View(step, currentJobId, previewUrl, loadedImageUrl, resultImage,
                      showBbox)
  /\ called' = "render"
  /\ UNCHANGED <<step, currentJobId, previewUrl, loadedImageUrl, resultImage,
                 showBbox, frames>>
  /\ ImageFrame

\* the checkbox of the result view: setShowBbox(e.target.checked)
ToggleBbox ==
  /\ called # "setPreviewUrl"
  /\ step = "result"
  /\ showBbox' = ~showBbox
  /\ rendered' = View(step, currentJobId, previewUrl, loadedImageUrl, resultImage,
                      ~showBbox)
  /\ called' = "setShowBbox"
  /\ UNCHANGED <<step, currentJobId, previewUrl, loadedImageUrl, resultImage, frames>>
  /\ ImageFrame

\* "New Document" of the result view: setStep('upload'); setCurrentJobId(null);
\* the image is unmounted, previewUrl and loadedImageUrl stay
LeaveResult ==
  /\ called # "setPreviewUrl"
  /\ step = "result"
  /\ step' = "upload"
  /\ currentJobId' = NoJob
  /\ rendered' = NothingRendered
  /\ resultImage' = NoImage
  /\ called' = "newDocument"
  /\ UNCHANGED <<previewUrl, loadedImageUrl, showBbox, frames>>
  /\ ImageFrame

\* a job with a result is chosen in the sidebar: the currentJob effect calls
\* setStep('result'); the ref is still null in the render that mounts the image
OpenResult ==
  /\ called # "setPreviewUrl"
  /\ step = "upload"
  /\ step' = "result"
  /\ currentJobId' = jobs[1].id
  /\ rendered' = View("result", jobs[1].id, previewUrl, loadedImageUrl, NoImage,
                      showBbox)
  /\ resultImage' = Mount("result", jobs[1].id, previewUrl, NoImage)
  /\ called' = "selectJob"
  /\ UNCHANGED <<previewUrl, loadedImageUrl, showBbox, frames>>
  /\ ImageFrame

ImageNext ==
  \/ \E url \in PreviewUrls \cup {NoUrl} : SetPreviewUrl(url)
  \/ PreviewUrlEffect
  \/ ImageLoads
  \/ \E url \in PreviewUrls : AnimationFrame(url)
  \/ Rerender
  \/ ToggleBbox
  \/ LeaveResult
  \/ OpenResult

ImageSpec == ImageInit /\ [][ImageNext]_vars


(* ------------------------------ fairness ------------------------------- *)
\* timers fire, responses are handled, and the status API answers in the end;
\* the user deletes no job
LiveSpec ==
  /\ Init /\ [][KeepNext]_vars
  /\ \A h \in Handles : WF_vars(PollTimerFires(h))
  /\ \A id \in ServerIds : SF_vars(ServerAnswersPoll(id, TRUE))
  /\ \A id \in ServerIds, o \in PollStates : WF_vars(PollHandle(id, o))

(* ------------------------------- claims -------------------------------- *)
TimersOf(id) == {h \in Handles : timers[h].job = id}

RequestsOf(id) ==
  pollFetch[id]["sent"] + pollFetch[id]["error"] + pollFetch[id]["processing"]
    + pollFetch[id]["completed"] + pollFetch[id]["failed"]

\* C1: once a poll response of job id J has been handled with status completed
\* or failed, no poll request of J is in flight and no poll timer of J is pending.
C1_TerminalIsFinal ==
  \A id \in ServerIds :
    terminalHandled[id] > 0 => TimersOf(id) = {} /\ RequestsOf(id) = 0

C1_Witness ==
  \E id \in ServerIds : terminalHandled[id] > 0 /\ mounted /\ InList(id)

C3_UploadFailureStopsSubmission ==
  \A n \in Submissions :
    submit[n].upload = "rejected" =>
      /\ submit[n].pc = "returned"
      /\ submit[n].resp = 0
      /\ ~InList(LocalId(n))

C3_Witness ==
  \E n \in Submissions :
    submit[n].upload = "rejected" /\ submit[n].pc = "returned" /\ mounted

\* handleSubmit's catch block runs for activation n in this step
UploadFailureHandled(n) ==
  /\ submit[n].pc \in {"uploadUrl", "s3Put"}
  /\ submit'[n].pc = "returned"

PostFailureHandled(n) ==
  /\ submit[n].pc = "ocrPost"
  /\ submit[n].resp < 0
  /\ submit'[n].pc = "returned"

Handled(id, outcome) == pollFetch'[id][outcome] < pollFetch[id][outcome]

Scheduled(id, delay) ==
  \E h \in Handles :
    /\ timers[h] = NoTimer
    /\ timers' = [timers EXCEPT ![h] = [job |-> id, delay |-> delay]]

\* C6: a poll of J that fails (fetch throws, response not OK) leaves the job
\* list as it is and schedules exactly one follow-up poll of J after 5000 ms;
\* a poll answered with a non-terminal status schedules exactly one after 3000 ms.
C6_PollRetryDelays ==
  [][\A id \in ServerIds :
       /\ Handled(id, "error") => jobs' = jobs /\ Scheduled(id, ErrorInterval)
       /\ Handled(id, "processing") => jobs' = jobs /\ Scheduled(id, PollInterval)]_vars

C6_Witness ==
  \E h \in Handles :
    /\ timers[h].delay = ErrorInterval /\ mounted
    /\ InList(timers[h].job) /\ FindJob(jobs, timers[h].job).status = "processing"

Resynchronized ==
  \E k \in 1..MaxFetchJobs :
    jobsFetch[k].st = "answered" /\ jobsFetch'[k].st = "done" /\ jobs' # jobs

C8_LateResultKeepsView ==
  [][\A id \in ServerIds :
       (mounted /\ Handled(id, "completed") /\ currentJobId # id) => step' = step]_vars

\* C9: after the unmount cleanup no poll timer is scheduled and no poll request
\* is issued.
C9_NoPollAfterUnmount ==
  [][~mounted =>
       /\ \A h \in Handles : timers'[h] # NoTimer => timers'[h] = timers[h]
       /\ \A id \in ServerIds : pollFetch'[id]["sent"] <= pollFetch[id]["sent"]]_vars

PollActive(id) == TimersOf(id) # {} \/ RequestsOf(id) > 0

\* C10 as stated: under fair timers and responses, once the status API reports
\* completed or failed for a job that is being polled, the job of the list
\* reaches that status and isProcessing becomes false (unless the page is
\* unmounted in between; LiveSpec has no step that deletes a job).
C10_TerminalReached ==
  \A id \in ServerIds :
    (mounted /\ PollActive(id) /\ srvStatus[id] \in Terminal)
      ~> (\/ ~mounted
          \/ /\ ~isProcessing
             /\ InList(id)
             /\ FindJob(jobs, id).status = srvStatus[id])

\* C10, what the poll does deliver: under the same fairness the terminal
\* response is handled, isProcessing becomes false, and the job has the terminal
\* status if the list still holds it.
C10_TerminalHandled ==
  \A id \in ServerIds :
    (mounted /\ PollActive(id) /\ srvStatus[id] \in Terminal)
      ~> (\/ ~mounted
          \/ /\ ~isProcessing
             /\ terminalHandled[id] > 0
             /\ InList(id) => FindJob(jobs, id).status = srvStatus[id])

C10_Witness ==
  \E id \in ServerIds :
    /\ mounted /\ terminalHandled[id] > 0 /\ ~isProcessing
    /\ InList(id) /\ FindJob(jobs, id).status = srvStatus[id]
    /\ FindJob(jobs, id).result = id

\* every job not carrying the id is the same record at the same position
OthersKept(id) ==
  /\ Len(jobs') = Len(jobs)
  /\ \A i \in 1..Len(jobs) : jobs[i].id # id => jobs'[i] = jobs[i]

\* C11: updateJob(id, u) changes only the job with that id (its fields named by
\* u, nothing else; nothing at all when no job has the id) and keeps the order
\* and currentJobId; replaceJobId(old, new) changes only the id field of the job
\* with id old and retargets currentJobId only if it was old; addJob puts the
\* job in front and keeps every existing job, in order.
C11_NamedOperationsFrame ==
  [][/\ \A id \in ListIds : \A u \in JobUpdates(id) :
          ListUpdateJob(id, u) =>
            /\ OthersKept(id)
            /\ \A i \in 1..Len(jobs) :
                 jobs[i].id = id =>
                   \A f \in DOMAIN jobs[i] :
                     jobs'[i][f] = IF f \in DOMAIN u THEN u[f] ELSE jobs[i][f]
            /\ id \notin Ids(jobs) => jobs' = jobs
            /\ currentJobId' = currentJobId
     /\ \A oldId \in ListIds, newId \in ListIds :
          ListReplaceJobId(oldId, newId) =>
            /\ OthersKept(oldId)
            /\ \A i \in 1..Len(jobs) :
                 jobs[i].id = oldId =>
                   /\ jobs'[i].id = newId
                   /\ jobs'[i].status = jobs[i].status
                   /\ jobs'[i].result = jobs[i].result
            /\ currentJobId = oldId => currentJobId' = newId
            /\ currentJobId # oldId => currentJobId' = currentJobId
     /\ \A job \in JobRecords :
          ListAddJob(job) =>
            /\ Len(jobs') = Len(jobs) + 1
            /\ jobs'[1] = job
            /\ \A i \in 1..Len(jobs) : jobs'[i + 1] = jobs[i]]_vars

\* replaceJobId has retargeted nothing: another job stays selected
C11_Witness ==
  /\ called = "replaceJobId"
  /\ Len(jobs) = MaxJobs
  /\ currentJobId \in Ids(jobs)
  /\ currentJobId # jobs[1].id

\* the job getResultData has read, when there is one with an envelope
ReadEnvelope ==
  IF resultJob(jobs, currentJobId, processingJobId) = NoJob THEN Absent
  ELSE IF jobs[1].result = NoResult THEN Absent
  ELSE envelope

\* an element's data: the element's res when it has one, else the element
DataOf(e) == IF "res" \in DOMAIN e THEN e.res ELSE e

\* C12: for an envelope without a direct res whose results array has n >= 1
\* elements, getResultData at page p selects results[p-1] when 1 <= p <= n and
\* results[0] when p > n.
C12_PageSelection ==
  (/\ called = "getResultData"
   /\ ReadEnvelope # Absent
   /\ ReadEnvelope.res = Absent
   /\ ReadEnvelope.results # Absent
   /\ Len(ReadEnvelope.results.items) >= 1)
    => LET n == Len(ReadEnvelope.results.items)
           p == currentPdfPage
       IN  /\ (1 <= p /\ p <= n) => resultData = Payload(p)
           /\ p > n => resultData = Payload(1)

\* a page beyond the array has been asked for and the first page was returned
C12_Witness ==
  /\ called = "getResultData"
  /\ ReadEnvelope # Absent
  /\ ReadEnvelope.res = Absent
  /\ ReadEnvelope.results # Absent
  /\ Len(ReadEnvelope.results.items) = MaxPages
  /\ currentPdfPage = MaxPages + 1
  /\ resultData = Payload(1)

\* C13: getResultData returns the direct res if present; otherwise the selected
\* element of results unwrapped through its res if it has one; otherwise the
\* selected element itself; and null when the job has no result or the result
\* has neither a res nor a non-empty results array.
C13_UnwrapOrder ==
  called = "getResultData" =>
    IF ReadEnvelope = Absent THEN resultData = Null
    ELSE IF ReadEnvelope.res # Absent THEN resultData = ReadEnvelope.res
    ELSE IF ReadEnvelope.results = Absent THEN resultData = Null
    ELSE IF Len(ReadEnvelope.results.items) = 0 THEN resultData = Null
    ELSE \E i \in 1..Len(ReadEnvelope.results.items) :
           /\ i = IF currentPdfPage <= Len(ReadEnvelope.results.items)
                    THEN currentPdfPage ELSE 1
           /\ resultData = DataOf(ReadEnvelope.results.items[i])

\* a direct res has won over a non-empty results array
C13_Witness ==
  /\ called = "getResultData"
  /\ ReadEnvelope # Absent
  /\ ReadEnvelope.res # Absent
  /\ ReadEnvelope.results # Absent
  /\ Len(ReadEnvelope.results.items) > 0
  /\ resultData = Payload(0)

\* the page has been rendered in the result step
Rendered == called = "renderResultStep"

\* the bounding box of the item (0-based idx) an overlay was made from
ItemBox(idx) ==
  IF isOcrV5Result(resultData) THEN getV5Bbox(resultData, idx)
  ELSE resultData.parsing_res_list[idx + 1].block_bbox

\* C14: a resolved payload that has neither a rec_texts array nor a
\* parsing_res_list array is treated as no renderable result; the page never
\* shows it as an empty successful result ('No blocks detected' or 'No text
\* detected').
C14_UnrecognizedIsNoResult ==
  (/\ Rendered
   /\ resultData # Null
   /\ ~isOcrV5Result(resultData)
   /\ ~isStructureResult(resultData))
    => /\ rendered.page = "No result available"
       /\ rendered.panel \notin {"No blocks detected", "No text detected"}

\* C15: no overlay rectangle is drawn for an item whose bounding box is
\* (0,0,0,0), in the structure branch and in the PP-OCRv5 branch alike.
C15_ZeroBoxNeverDrawn ==
  Rendered =>
    \A k \in 1..Len(rendered.overlays) : ItemBox(rendered.overlays[k].of) # ZeroBox

\* the overlays of a PP-OCRv5 payload are drawn: toggle on, image loaded
V5OverlaysShown ==
  /\ Rendered
  /\ isOcrV5Result(resultData)
  /\ showBbox
  /\ previewUrl # NoUrl
  /\ loadedImageUrl = previewUrl
  /\ resultImage.complete

\* C16: for a PP-OCRv5 payload shown with overlays enabled and the image
\* loaded, there is exactly one rectangle per index of rec_texts whose box is
\* not (0,0,0,0), and no other rectangle.
C16_OneRectanglePerBoxedText ==
  V5OverlaysShown =>
    LET boxed == {i \in 0..(Len(resultData.rec_texts) - 1) :
                    getV5Bbox(resultData, i) # ZeroBox}
    IN  /\ Len(rendered.overlays) = Cardinality(boxed)
        /\ {rendered.overlays[k].of : k \in 1..Len(rendered.overlays)} = boxed

\* rec_texts = [A, B], rec_boxes = [[0,0,10,10], [0,0,0,0]]: one rectangle, for A
C16_Witness ==
  /\ V5OverlaysShown
  /\ Len(resultData.rec_texts) = 2
  /\ resultData.rec_boxes = <<(<<0, 0, 10, 10>>), ZeroBox>>
  /\ Len(rendered.overlays) = 1
  /\ rendered.overlays[1].of = 0

\* C17: every overlay rectangle comes from a bounding box with x1 <= x2 and
\* y1 <= y2 and has a non-negative width and height; an item whose box
\* violates the ordering is skipped, in both branches.
C17_OrderedBoxesOnly ==
  Rendered =>
    \A k \in 1..Len(rendered.overlays) :
      LET box == ItemBox(rendered.overlays[k].of)
      IN  /\ box[1] <= box[3]
          /\ box[2] <= box[4]
          /\ rendered.overlays[k].width >= 0
          /\ rendered.overlays[k].height >= 0

\* the blocks renderBlocksView was given
GivenBlocks ==
  IF isStructureResult(resultData) THEN resultData.parsing_res_list ELSE <<>>

\* the group of g starts with a block of two or more non-blank lines and all
\* its other blocks are empty
LeadsGroup(g) ==
  LET ind == GroupIndices(GivenBlocks, g)
  IN  /\ Len(ind) >= 2
      /\ Len(Lines(GivenBlocks[ind[1]].block_content)) >= 2
      /\ \A k \in 2..Len(ind) : ~HasContent(GivenBlocks[ind[k]].block_content)

\* the group of g has nothing to redistribute: a single block, no content, one
\* line only, or no empty block
GroupAtRest(g) ==
  LET ind == GroupIndices(GivenBlocks, g)
      with == {k \in 1..Len(ind) : HasContent(GivenBlocks[ind[k]].block_content)}
  IN  \/ Len(ind) <= 1
      \/ with = {}
      \/ with = 1..Len(ind)
      \/ \A k \in with :
           (\A m \in with : k <= m)
             => Len(Lines(GivenBlocks[ind[k]].block_content)) <= 1

\* C19: in a group whose first block holds k >= 2 non-blank lines and whose
\* following siblings are empty, the first line stays on the first block and
\* the i-th empty sibling receives line i+1 (a sibling beyond the last line
\* stays empty); blocks of groups with nothing to redistribute are unchanged,
\* and no field other than the content changes.
C19_LinesGoToEmptySiblings ==
  Rendered =>
    /\ Len(rendered.processed) = Len(GivenBlocks)
    /\ \A g \in Groups :
         LET ind == GroupIndices(GivenBlocks, g)
         IN  /\ LeadsGroup(g) =>
                  LET lines == Lines(GivenBlocks[ind[1]].block_content)
                  IN  \A k \in 1..Len(ind) :
                        rendered.processed[ind[k]].block_content =
                          IF k <= Len(lines) THEN <<lines[k]>>
                          ELSE GivenBlocks[ind[k]].block_content
             /\ GroupAtRest(g) =>
                  \A k \in 1..Len(ind) : rendered.processed[ind[k]] = GivenBlocks[ind[k]]
    /\ \A i \in 1..Len(GivenBlocks) :
         rendered.processed[i] =
           [GivenBlocks[i] EXCEPT !.block_content = rendered.processed[i].block_content]

\* 'a\nb' and '' of group 1 have become 'a' and 'b'; the block of group 2 is as
\* it was
C19_Witness ==
  /\ Rendered
  /\ Len(GivenBlocks) = 3
  /\ LeadsGroup(1)
  /\ GivenBlocks[1].block_content = <<"a", "b">>
  /\ GivenBlocks[3].group_id = 2
  /\ GivenBlocks[3].block_content = <<"a", "b">>
  /\ rendered.processed[1].block_content = <<"a">>
  /\ rendered.processed[2].block_content = <<"b">>
  /\ rendered.processed[3].block_content = <<"a", "b">>

\* C20: an empty block that precedes the content block of its group receives
\* no line and stays empty.
C20_PrecedingEmptyStaysEmpty ==
  Rendered =>
    \A i \in 1..Len(GivenBlocks) :
      LET ind == GroupIndices(GivenBlocks, GivenBlocks[i].group_id)
          bwc == BlockWithContent(GivenBlocks, ind)
      IN  (bwc # 0 /\ i < bwc)
            => rendered.processed[i].block_content = GivenBlocks[i].block_content

\* C18 (as stated): overlays are on screen only over an image that shows the
\* current previewUrl and has finished loading.
C18_OverlaysNeedLoadedImage ==
  rendered.overlays # <<>> =>
    /\ resultImage.url = previewUrl
    /\ resultImage.complete

\* C18 (the guard and the reset): overlays are computed only in renders where
\* loadedImageUrl equals a non-null previewUrl, and the effect that follows a
\* change of previewUrl leaves the flag null.
C18_OverlaysNeedFlag ==
  /\ rendered.overlays # <<>> => (previewUrl # NoUrl /\ loadedImageUrl = previewUrl)
  /\ called = "effect" => loadedImageUrl = NoUrl

\* the image of the second source has loaded after a change of previewUrl and
\* the overlays are drawn over it
C18_Witness ==
  /\ called = "onLoad"
  /\ previewUrl = "data:2"
  /\ loadedImageUrl = previewUrl
  /\ resultImage.complete
  /\ "data:1" \in frames
  /\ rendered.overlays # <<>>

\* C21: in a group made of a populated single-line block, then a populated
\* multi-line block, then an empty block, the multi-line block keeps its first
\* line and the empty block receives its second line.
C21_FirstMultiLineBlockRedistributed ==
  Rendered =>
    \A g \in Groups :
      LET ind == GroupIndices(GivenBlocks, g)
      IN  (/\ Len(ind) = 3
           /\ Len(Lines(GivenBlocks[ind[1]].block_content)) = 1
           /\ Len(Lines(GivenBlocks[ind[2]].block_content)) >= 2
           /\ ~HasContent(GivenBlocks[ind[3]].block_content))
            => LET lines == Lines(GivenBlocks[ind[2]].block_content)
               IN  /\ rendered.processed[ind[2]].block_content = <<lines[1]>>
                   /\ rendered.processed[ind[3]].block_content = <<lines[2]>>

\* a processed block the blocks view has to keep
Retained(b) == HasContent(b.block_content) \/ b.block_label \in visualBlockTypes

\* C22: after redistribution the blocks view holds, in document order, exactly
\* the blocks that have non-blank content or a visual label; an empty visual
\* block is kept, an empty non-visual block is dropped.
C22_RetainedIffContentOrVisual ==
  Rendered =>
    /\ \A i \in 1..Len(rendered.processed) :
         Retained(rendered.processed[i])
           <=> \E k \in 1..Len(rendered.blocks) :
                 rendered.blocks[k] = rendered.processed[i]
    /\ \A k \in 1..Len(rendered.blocks) :
         /\ rendered.blocks[k].block_id \in 1..Len(rendered.processed)
         /\ rendered.blocks[k] = rendered.processed[rendered.blocks[k].block_id]
         /\ \A m \in 1..(k - 1) :
              rendered.blocks[m].block_id < rendered.blocks[k].block_id

\* an empty image block is kept, the empty text block after 'a' is dropped
C22_Witness ==
  /\ Rendered
  /\ Len(GivenBlocks) = 3
  /\ GivenBlocks[1].block_label = "image"
  /\ GivenBlocks[2].block_content = <<"a">>
  /\ GivenBlocks[3].block_label = "text"
  /\ ~HasContent(rendered.processed[3].block_content)
  /\ Len(rendered.blocks) = 2
  /\ rendered.blocks[1] = GivenBlocks[1]

\* C23: redistribution followed by the filter, applied to its own output,
\* returns that output: same blocks, same contents, same order.
C23_NormalizingIsIdempotent ==
  Rendered => filteredBlocks(rendered.blocks) = rendered.blocks

\* lines were handed on and an empty sibling was dropped by the first pass
C23_Witness ==
  /\ Rendered
  /\ Len(GivenBlocks) = 3
  /\ LeadsGroup(1)
  /\ Len(GroupIndices(GivenBlocks, 1)) = 3
  /\ GivenBlocks[1].block_content = <<"a", "b">>
  /\ Len(rendered.blocks) = 2
  /\ filteredBlocks(rendered.blocks) = rendered.blocks

\* C30: every non-blank line of a group's content block is in some block of
\* the group after redistribution.
C30_NoLineLost ==
  Rendered =>
    \A g \in Groups :
      LET ind == GroupIndices(GivenBlocks, g)
          bwc == BlockWithContent(GivenBlocks, ind)
      IN  bwc # 0 =>
            \A n \in 1..Len(Lines(GivenBlocks[bwc].block_content)) :
              \E k \in 1..Len(ind) :
                \E m \in 1..Len(rendered.processed[ind[k]].block_content) :
                  rendered.processed[ind[k]].block_content[m]
                    = Lines(GivenBlocks[bwc].block_content)[n]

\* POST /ocr of submission n is answered with a job id and handled in this step
IdAssigned(n) ==
  /\ mounted
  /\ submit[n].pc = "ocrPost"
  /\ submit[n].resp > 0
  /\ submit'[n].pc = "returned"

\* C28: whatever fetchJobs does in between, the list holds a job with the
\* server-assigned id once replaceJobId has run, and holds it with status
\* completed and the returned result once a poll response reporting completed
\* has been handled (no step here deletes a job on the user's behalf).
C28_SubmittedJobKept ==
  /\ [][\A n \in Submissions : IdAssigned(n) => submit[n].resp \in Ids(jobs')]_vars
  /\ [][\A id \in ServerIds :
          (mounted /\ Handled(id, "completed")) =>
            /\ id \in Ids(jobs')
            /\ FindJob(jobs', id).status = "completed"
            /\ FindJob(jobs', id).result = id]_vars

(* ------------------ the preview and the PDF page state ------------------ *)
\* Every await of handleFileSelect, of the currentJob effect, of the
\* ensure-preview effect, of handlePdfPageChange and of handleRetry is a load
\* in flight: it is started by a handler or an effect, and its continuation
\* runs later with the values its closure captured.
MaxLoads == 2           \* loads in flight at once

Viewed == {1, 2}                                \* the jobs of the sidebar

FileId == Cardinality(Viewed) + 1               \* the document picked from disk

toLowerCase(name) == IF name = "DOC.PDF" THEN "doc.pdf" ELSE name

\* filename.toLowerCase().endsWith('.pdf')
IsPdf(filename) == toLowerCase(filename) = "doc.pdf"

\* what a closure holds of the job (or file): id, filename, the pages of the
\* stored document, imageAvailable
StoredJob(id, filename, pages) ==
  [id |-> id, status |-> "completed", result |-> id, s3Key |-> "uploads",
   filename |-> filename, pages |-> pages, imageAvailable |-> "undefined"]

StoredJobs(id) ==
  {StoredJob(id, "scan.png", 0), StoredJob(id, "DOC.PDF", MaxPages)}

File(size, type, pages) == [size |-> size, type |-> type, pages |-> pages]

Files ==
  {File(sz, "image/png", 0) : sz \in FileSizes}
    \cup {File(sz, "application/pdf", n) : sz \in FileSizes, n \in 1..MaxPages}

FileSrc(file) ==
  StoredJob(FileId, IF file.type = "application/pdf" THEN "doc.pdf" ELSE "scan.png",
            file.pages)

Load(h, at, src, page) == [h |-> h, at |-> at, src |-> src, page |-> page]

DocumentOf(src) == Document(src.id, src.pages)

\* data.url of GET /image/{s3Key}
PresignedUrl(id) == "https://s3/" \o ToString(id)

\* canvas.toDataURL of a page, reader.result of an image (page 0)
DataUrl(id, page) == "data:" \o ToString(id) \o "/" \o ToString(page)

RenderOutcomes == {"ok", "nocontext", "error"}

Smaller(a, b) == IF a < b THEN a ELSE b

Larger(a, b) == IF a > b THEN a ELSE b

\* renderPdfToImage(arrayBuffer, pageNumber)
renderPdfToImage(doc, pageNumber, outcome) ==
  CASE outcome = "ok" ->
         \* validPageNum = Math.max(1, Math.min(pageNumber, totalPages))
         [dataUrl |-> DataUrl(doc.id, Larger(1, Smaller(pageNumber, doc.pages))),
          totalPages |-> doc.pages]
    [] outcome = "nocontext" -> [dataUrl |-> NoUrl, totalPages |-> doc.pages]
    [] OTHER -> [dataUrl |-> NoUrl, totalPages |-> 0]

\* mutant: the size check lets a file one unit over the limit through
TooLargeStrict(file) == file.size > MAX_FILE_SIZE + 1

\* file.size > MAX_FILE_SIZE
TooLarge(file) == file.size > MAX_FILE_SIZE

PreviewFrame ==
  UNCHANGED <<isProcessing, processingJobId, mounted, pollTimeoutRef, timers,
              pollFetch, submit, jobsFetch, resultFetch, srvStatus,
              terminalHandled, resultData, rendered, loadedImageUrl,
              resultImage, showBbox, envelope, frames, hook>>

PageKept == UNCHANGED <<currentPdfPage, totalPdfPages, pdfArrayBufferRef>>

\* one batch of state updates, and the effects of the renders it causes: the
\* currentJob effect (a new currentJobId with a job of the list: load its
\* image, setStep('result')) and the ensure-preview effect (step 'result'
\* without previewUrl after one of its dependencies changed)
CommitPreview(js, touched, cur, st, url, rest) ==
  LET effectRuns == cur # currentJobId /\ cur \in Ids(js)
      st1 == IF effectRuns THEN "result" ELSE st
      changed == touched \/ st1 # step \/ url # previewUrl \/ cur # currentJobId
      ensures == st1 = "result" /\ url = NoUrl /\ cur \in Ids(js) /\ changed
  IN  /\ jobs' = js
      /\ currentJobId' = cur
      /\ step' = st1
      /\ previewUrl' = url
      /\ pending' = rest
           \cup (IF effectRuns THEN {Load("effect", "url", FindJob(js, cur), 1)} ELSE {})
           \cup (IF ensures THEN {Load("ensure", "url", FindJob(js, cur), 1)} ELSE {})
      /\ Cardinality(pending') <= MaxLoads

\* alert(...); return
Alert(l) ==
  /\ pending' = pending \ {l}
  /\ UNCHANGED <<jobs, currentJobId, step, imageData, previewUrl, called>>
  /\ PageKept

Advance(l, at) ==
  /\ pending' = (pending \ {l}) \cup {[l EXCEPT !.at = at]}
  /\ UNCHANGED <<jobs, currentJobId, step, imageData, previewUrl, called>>

PreviewInit ==
  /\ jobs \in {js \in [Viewed -> UNION {StoredJobs(i) : i \in Viewed}] :
                 \A i \in Viewed : js[i].id = i}
  /\ currentJobId = NoJob
  /\ LifecycleIdle
  /\ ViewInit

\* handleFileSelect(file), up to its first await
SelectFile(file) ==
  /\ mounted /\ step = "upload"
  /\ IF TooLarge(file)
     THEN /\ called' = "alert: File is too large"
          /\ UNCHANGED pending
     ELSE /\ called' = "handleFileSelect"
          /\ pending' = pending \cup
               {Load("select",
                     IF file.type = "application/pdf" THEN "buffer" ELSE "read",
                     FileSrc(file), 1)}
          /\ Cardinality(pending') <= MaxLoads
  /\ UNCHANGED <<jobs, currentJobId, step, imageData, previewUrl>>
  /\ PageKept
  /\ PreviewFrame

\* handleFileSelect, PDF branch: file.arrayBuffer() settled
FileBuffered(l, ok) ==
  /\ l \in pending /\ l.h = "select" /\ l.at = "buffer"
  /\ IF ok
     THEN /\ pdfArrayBufferRef' = DocumentOf(l.src)
          /\ Advance(l, "render")
          /\ UNCHANGED <<currentPdfPage, totalPdfPages>>
     ELSE Alert(l)
  /\ PreviewFrame

\* handleFileSelect, PDF branch: renderPdfToImage(arrayBufferCopy, 1) settled
FileRendered(l, outcome) ==
  /\ l \in pending /\ l.h = "select" /\ l.at = "render"
  /\ LET r == renderPdfToImage(DocumentOf(l.src), 1, outcome)
     IN  IF r.dataUrl = NoUrl
         THEN Alert(l)
         ELSE /\ totalPdfPages' = SetState(totalPdfPages, r.totalPages)
              /\ currentPdfPage' = SetState(currentPdfPage, 1)
              /\ imageData' = TRUE
              /\ CommitPreview(jobs, FALSE, currentJobId, "options", r.dataUrl,
                               pending \ {l})
              /\ UNCHANGED <<pdfArrayBufferRef, called>>
  /\ PreviewFrame

\* handleFileSelect, image branch: reader.onload
FileLoaded(l) ==
  /\ l \in pending /\ l.h = "select" /\ l.at = "read"
  /\ imageData' = TRUE
  /\ CommitPreview(jobs, FALSE, currentJobId, "options", DataUrl(l.src.id, 0),
                   pending \ {l})
  /\ PageKept
  /\ UNCHANGED called
  /\ PreviewFrame

\* sidebar item: isAccessible && setCurrentJobId(job.id)
ViewJob(id) ==
  /\ mounted /\ id \in Ids(jobs) /\ id # currentJobId
  /\ FindJob(jobs, id).imageAvailable # "false"
  /\ CommitPreview(jobs, FALSE, id, step, previewUrl, pending)
  /\ PageKept
  /\ UNCHANGED <<imageData, called>>
  /\ PreviewFrame

\* both effects: await fetchS3ImageUrl(job.s3Key) settled
JobUrlResponse(l, ok) ==
  /\ l \in pending /\ l.h \in {"effect", "ensure"} /\ l.at = "url"
  /\ LET marks == l.h = "effect" /\ (~ok \/ l.src.imageAvailable # "true")
         js == IF marks
               THEN updateJob(jobs, l.src.id,
                              [imageAvailable |-> IF ok THEN "true" ELSE "false"])
               ELSE jobs
     IN  CASE ~ok ->
                /\ CommitPreview(js, marks, currentJobId, step,
                                 IF l.h = "effect" THEN NoUrl ELSE previewUrl,
                                 pending \ {l})
                /\ PageKept
           [] ok /\ IsPdf(l.src.filename) ->
                /\ CommitPreview(js, marks, currentJobId, step, previewUrl,
                                 (pending \ {l}) \cup {[l EXCEPT !.at = "fetch"]})
                /\ PageKept
           [] OTHER ->
                /\ pdfArrayBufferRef' = NoBuffer
                /\ totalPdfPages' = 1
                /\ currentPdfPage' = 1
                /\ CommitPreview(js, marks, currentJobId, step,
                                 PresignedUrl(l.src.id), pending \ {l})
  /\ UNCHANGED <<imageData, called>>
  /\ PreviewFrame

\* both effects, PDF branch: fetch(imageUrl) and response.arrayBuffer() settled
JobPdfFetched(l, ok) ==
  /\ l \in pending /\ l.h \in {"effect", "ensure"} /\ l.at = "fetch"
  /\ IF ok
     THEN /\ pdfArrayBufferRef' = DocumentOf(l.src)
          /\ Advance(l, "render")
          /\ UNCHANGED <<currentPdfPage, totalPdfPages>>
     ELSE /\ CommitPreview(jobs, FALSE, currentJobId, step,
                           IF l.h = "effect" THEN NoUrl ELSE previewUrl,
                           pending \ {l})
          /\ PageKept
          /\ UNCHANGED <<imageData, called>>
  /\ PreviewFrame

\* both effects, PDF branch: renderPdfToImage(arrayBuffer, 1) settled
JobPdfRendered(l, outcome) ==
  /\ l \in pending /\ l.h \in {"effect", "ensure"} /\ l.at = "render"
  /\ LET r == renderPdfToImage(DocumentOf(l.src), 1, outcome)
     IN  /\ totalPdfPages' = r.totalPages
         /\ currentPdfPage' = 1
         /\ CommitPreview(jobs, FALSE, currentJobId, step,
                          IF r.dataUrl # NoUrl THEN r.dataUrl
                          ELSE IF l.h = "effect" THEN NoUrl ELSE previewUrl,
                          pending \ {l})
  /\ UNCHANGED <<pdfArrayBufferRef, imageData, called>>
  /\ PreviewFrame

\* the page buttons of the result step: handlePdfPageChange(currentPdfPage -+ 1)
handlePdfPageChange(newPage) ==
  /\ mounted /\ step = "result" /\ totalPdfPages > 1
  /\ \/ newPage = currentPdfPage - 1 /\ ~(currentPdfPage <= 1)
     \/ newPage = currentPdfPage + 1 /\ ~(currentPdfPage >= totalPdfPages)
  /\ ~(pdfArrayBufferRef = NoBuffer \/ newPage < 1 \/ newPage > totalPdfPages)
  /\ pending' = pending \cup
       {Load("page", "render",
             StoredJob(pdfArrayBufferRef.id, "doc.pdf", pdfArrayBufferRef.pages),
             newPage)}
  /\ Cardinality(pending') <= MaxLoads
  /\ UNCHANGED <<jobs, currentJobId, step, imageData, previewUrl, called>>
  /\ PageKept
  /\ PreviewFrame

\* handlePdfPageChange: renderPdfToImage(pdfArrayBufferRef.current, newPage) settled
PageRendered(l, outcome) ==
  /\ l \in pending /\ l.h = "page" /\ l.at = "render"
  /\ LET r == renderPdfToImage(DocumentOf(l.src), l.page, outcome)
     IN  IF r.dataUrl # NoUrl
         THEN /\ currentPdfPage' = l.page
              /\ CommitPreview(jobs, FALSE, currentJobId, step, r.dataUrl,
                               pending \ {l})
         ELSE /\ pending' = pending \ {l}
              /\ UNCHANGED <<jobs, currentJobId, step, previewUrl, currentPdfPage>>
  /\ UNCHANGED <<totalPdfPages, pdfArrayBufferRef, imageData, called>>
  /\ PreviewFrame

\* the Retry button of the result step: handleRetry up to its first await
handleRetry ==
  /\ mounted /\ step = "result" /\ currentJobId \in Ids(jobs)
  /\ pending' = pending \cup {Load("retry", "url", FindJob(jobs, currentJobId), 1)}
  /\ Cardinality(pending') <= MaxLoads
  /\ UNCHANGED <<jobs, currentJobId, step, imageData, previewUrl, called>>
  /\ PageKept
  /\ PreviewFrame

\* handleRetry: fetchS3ImageUrl settled
RetryUrlResponse(l, ok) ==
  /\ l \in pending /\ l.h = "retry" /\ l.at = "url"
  /\ IF ok
     THEN Advance(l, "fetch") /\ PageKept
     ELSE Alert(l)
  /\ PreviewFrame

\* handleRetry: fetch(imageUrl), response.blob() (and blob.arrayBuffer()) settled
RetryFetched(l, ok) ==
  /\ l \in pending /\ l.h = "retry" /\ l.at = "fetch"
  /\ CASE ~ok -> Alert(l)
       [] ok /\ IsPdf(l.src.filename) ->
            /\ pdfArrayBufferRef' = DocumentOf(l.src)
            /\ Advance(l, "render")
            /\ UNCHANGED <<currentPdfPage, totalPdfPages>>
       [] OTHER -> Advance(l, "read") /\ PageKept
  /\ PreviewFrame

\* handleRetry, PDF branch: renderPdfToImage(arrayBuffer, 1) settled
RetryRendered(l, outcome) ==
  /\ l \in pending /\ l.h = "retry" /\ l.at = "render"
  /\ LET r == renderPdfToImage(DocumentOf(l.src), 1, outcome)
     IN  IF r.dataUrl = NoUrl
         THEN Alert(l)
         ELSE /\ totalPdfPages' = r.totalPages
              /\ currentPdfPage' = 1
              /\ imageData' = TRUE
              /\ CommitPreview(jobs, FALSE, NoJob, "options", r.dataUrl,
                               pending \ {l})
              /\ UNCHANGED <<pdfArrayBufferRef, called>>
  /\ PreviewFrame

\* handleRetry, image branch: reader.onload
RetryLoaded(l) ==
  /\ l \in pending /\ l.h = "retry" /\ l.at = "read"
  /\ imageData' = TRUE
  /\ CommitPreview(jobs, FALSE, NoJob, "options", DataUrl(l.src.id, 0),
                   pending \ {l})
  /\ PageKept
  /\ UNCHANGED called
  /\ PreviewFrame

\* picking a document for submission
FileInit == Init

FileNext ==
  \/ \E file \in Files : SelectFile(file)
  \/ \E l \in pending, ok \in BOOLEAN : FileBuffered(l, ok)
  \/ \E l \in pending, outcome \in RenderOutcomes : FileRendered(l, outcome)
  \/ \E l \in pending : FileLoaded(l)
  \/ ChangeDocument
  \/ handleNewJob

FileSpec == FileInit /\ [][FileNext]_vars

\* viewing the jobs of the sidebar
PreviewNext ==
  \/ ResultNewDocument
  \/ handleNewJob
  \/ \E id \in Viewed : ViewJob(id)
  \/ \E l \in pending, ok \in BOOLEAN : JobUrlResponse(l, ok)
  \/ \E l \in pending, ok \in BOOLEAN : JobPdfFetched(l, ok)
  \/ \E l \in pending, outcome \in RenderOutcomes : JobPdfRendered(l, outcome)
  \/ \E page \in 1..MaxPages : handlePdfPageChange(page)
  \/ \E l \in pending, outcome \in RenderOutcomes : PageRendered(l, outcome)
  \/ handleRetry
  \/ \E l \in pending, ok \in BOOLEAN : RetryUrlResponse(l, ok)
  \/ \E l \in pending, ok \in BOOLEAN : RetryFetched(l, ok)
  \/ \E l \in pending, outcome \in RenderOutcomes : RetryRendered(l, outcome)
  \/ \E l \in pending : RetryLoaded(l)

PreviewSpec == PreviewInit /\ [][PreviewNext]_vars

\* C24: handleFileSelect of a file larger than 100 MB starts no read, no PDF
\* rasterization and no request (no load is started), and leaves step,
\* imageData, previewUrl and the PDF page state as they were.
C24_OversizeRejected ==
  [][\A file \in Files :
       (SelectFile(file) /\ file.size > MAX_FILE_SIZE) =>
         UNCHANGED <<step, imageData, previewUrl, currentPdfPage, totalPdfPages,
                     pdfArrayBufferRef, pending>>]_vars

\* an oversize file was refused after a PDF had been previewed and dropped
C24_Witness ==
  /\ called = "alert: File is too large"
  /\ totalPdfPages > 1
  /\ step = "upload" /\ ~imageData /\ previewUrl = NoUrl

\* C25: while the document selected for submission is a single image, the PDF
\* page state is totalPdfPages = 1 and currentPdfPage = 1, also after a
\* multi-page PDF was previewed before.
C25_ImageHasOnePage ==
  (imageData /\ step = "options" /\ previewUrl = DataUrl(FileId, 0)) =>
    (totalPdfPages = 1 /\ currentPdfPage = 1)

\* the preview and the page state are those of job id
Belongs(id) ==
  LET job == FindJob(jobs, id)
  IN  IF IsPdf(job.filename)
      THEN /\ totalPdfPages = job.pages
           /\ currentPdfPage \in 1..job.pages
           /\ previewUrl = DataUrl(id, currentPdfPage)
      ELSE /\ totalPdfPages = 1
           /\ currentPdfPage = 1
           /\ previewUrl = PresignedUrl(id)

\* C29: once every load has settled, the preview shown in the result step and
\* the PDF page state are those of the job being viewed.
C29_PreviewBelongsToViewedJob ==
  (step = "result" /\ currentJobId \in Ids(jobs) /\ pending = {} /\ previewUrl # NoUrl)
    => Belongs(currentJobId)

(* --------------------------- useOcrResult ------------------------------ *)
maxRetries == 2         \* the maxRetries option of the hook
MaxStarts == 2          \* calls of startPolling

HookOutcomes == {"processing", "completed", "failed", "error"}

\* mutant: the retry limit is never reached
ExhaustedNever(n) == FALSE

\* retriesRef.current >= maxRetries
Exhausted(n) == n >= maxRetries

\* stopPolling()
stopPolling(h) ==
  [h EXCEPT !.live = IF h.intervalRef # 0 THEN @ \ {h.intervalRef} ELSE @,
            !.intervalRef = 0,
            !.retriesRef = 0,
            !.jobIdRef = NoJob]

\* pollStatus() up to its await: the request names jobIdRef.current
pollStatus(h) ==
  IF h.jobIdRef = NoJob THEN h ELSE [h EXCEPT !.inflight[h.jobIdRef] = @ + 1]

\* setStatus / setResult / setError: dropped once unmounted
setHook(h, status, result, error) ==
  IF h.mounted
  THEN [h EXCEPT !.status = status, !.result = result, !.error = error]
  ELSE h

\* setStatus('failed'); setError(text); stopPolling()
giveUp(h, text) == stopPolling(setHook(h, "failed", h.result, text))

\* the continuation of pollStatus after the awaits
settle(h, job, outcome) ==
  LET more == [h EXCEPT !.retriesRef = @ + 1]
  IN  CASE outcome = "completed" -> stopPolling(setHook(h, "completed", job, h.error))
        [] outcome = "failed" -> giveUp(h, "OCR processing failed")
        [] outcome = "processing" ->
             IF Exhausted(more.retriesRef)
             THEN giveUp(more, "Polling timeout: OCR processing took too long")
             ELSE more
        [] OTHER ->
             IF Exhausted(more.retriesRef)
             THEN giveUp(more, "Failed to get OCR result after multiple attempts")
             ELSE more

HookFrame ==
  UNCHANGED <<jobVars, currentPdfPage, resultData, rendered, previewUrl,
              loadedImageUrl, resultImage, showBbox, envelope, frames, called,
              pageVars>>

HookInit == Init

\* startPolling(jobId)
StartPolling(jobId) ==
  /\ hook.mounted
  /\ hook.starts < MaxStarts
  /\ hook.inflight[jobId] < MaxInFlight
  /\ LET stopped == stopPolling(hook)
         reset == setHook([stopped EXCEPT !.jobIdRef = jobId, !.retriesRef = 0],
                          "polling", NoResult, "null")
         polled == pollStatus(reset)
         timer == hook.starts + 1
     IN  hook' = [polled EXCEPT !.intervalRef = timer, !.live = @ \cup {timer},
                                !.starts = timer]
  /\ HookFrame

\* the interval timer calls pollStatus()
IntervalFires(timer) ==
  /\ timer \in hook.live
  /\ hook.jobIdRef # NoJob => hook.inflight[hook.jobIdRef] < MaxInFlight
  /\ hook' = pollStatus(hook)
  /\ HookFrame

\* a request issued for job settles: response.ok and data.status, or a throw
PollSettles(job, outcome) ==
  /\ hook.inflight[job] > 0
  /\ hook' = settle([hook EXCEPT !.inflight[job] = @ - 1], job, outcome)
  /\ HookFrame

\* the caller stops the polling
StopPolling ==
  /\ hook.mounted
  /\ hook' = stopPolling(hook)
  /\ HookFrame

\* the cleanup of the hook's effect
HookUnmount ==
  /\ hook.mounted
  /\ hook' = stopPolling([hook EXCEPT !.mounted = FALSE])
  /\ HookFrame

HookNext ==
  \/ \E jobId \in HookJobs : StartPolling(jobId)
  \/ \E timer \in 1..MaxStarts : IntervalFires(timer)
  \/ \E job \in HookJobs, outcome \in HookOutcomes : PollSettles(job, outcome)
  \/ StopPolling
  \/ HookUnmount

\* a live interval fires again and every request settles
HookLiveSpec ==
  /\ HookInit /\ [][HookNext]_vars
  /\ WF_vars(\E timer \in 1..MaxStarts : IntervalFires(timer))
  /\ \A job \in HookJobs :
       WF_vars(\E outcome \in HookOutcomes : PollSettles(job, outcome))

RetryErrors ==
  {"Polling timeout: OCR processing took too long",
   "Failed to get OCR result after multiple attempts"}

C27_LateResponseIgnored ==
  [][\A job \in HookJobs, outcome \in HookOutcomes :
       (PollSettles(job, outcome) /\ job # hook.jobIdRef) =>
         /\ hook'.status = hook.status
         /\ hook'.result = hook.result
         /\ hook'.error = hook.error
         /\ hook'.live = hook.live]_vars

\* C27, the timers: at most one interval is live, and it is the one intervalRef holds
C27_OneInterval ==
  /\ Cardinality(hook.live) <= 1
  /\ hook.live \subseteq {hook.intervalRef}

\* a second startPolling replaced the interval of the first
C27_Witness ==
  /\ hook.starts = 2 /\ hook.intervalRef = 2 /\ hook.live = {2}
  /\ \E job \in HookJobs : job # hook.jobIdRef /\ hook.inflight[job] > 0

====
